---- MODULE Spec2Model ----
(***************************************************************************)
(* conductor-mcp (src/server.py): the persistent configuration store, the  *)
(* voice pool allocator, the placement decision, the audio lock of speak,  *)
(* the batch spawner, worker provisioning and teardown, send_keys, the     *)
(* pane grids, the rendezvous signals, the status queries and voice        *)
(* allocation in peer server processes, as state machines over the         *)
(* configuration file, the in-memory DEFAULT_CONFIG object, the tmux       *)
(* sessions and panes, the state files and the worktrees.                  *)
(***************************************************************************)
EXTENDS Integers, Sequences, FiniteSets, TLC

(***************************************************************************)
(* Bounds                                                                  *)
(***************************************************************************)
\* The model keeps the first PoolSize voices of the 14-entry VOICE_POOL.
PoolSize == 2

\* Worker ids: one more than the pool holds, so that the pool can be exhausted.
WorkerIds == 1..(PoolSize + 1)

(***************************************************************************)
(* Python values                                                           *)
(***************************************************************************)
\* Optional[T]: None is the empty tuple, a value v is <<v>>.
None == <<>>

Some(v) == <<v>>

IsNone(o) == Len(o) = 0

Range(f) == {f[k] : k \in DOMAIN f}

Min(S) == CHOOSE x \in S : \A y \in S : x <= y

\* A dict without the key k.
DictDel(d, k) == [x \in (DOMAIN d) \ {k} |-> d[x]]

\* A dict with d[k] = v set (the key added when absent).
DictSet(d, k, v) == [x \in (DOMAIN d) \cup {k} |-> IF x = k THEN v ELSE d[x]]

EmptyDict == <<>>

(***************************************************************************)
(* Configuration: VOICE_POOL, DEFAULT_CONFIG                               *)
(***************************************************************************)
AllVoices ==
    << "en-US-AriaNeural", "en-US-GuyNeural", "en-US-JennyNeural",
       "en-US-DavisNeural", "en-US-AmberNeural", "en-US-AndrewNeural",
       "en-US-EmmaNeural", "en-US-BrianNeural", "en-US-AnaNeural",
       "en-US-ChristopherNeural", "en-GB-SoniaNeural", "en-GB-RyanNeural",
       "en-AU-NatashaNeural", "en-AU-WilliamNeural" >>

VOICE_POOL == SubSeq(AllVoices, 1, PoolSize)

\* The nested dicts of DEFAULT_CONFIG as written in the source.
CompiledVoice ==
    [default |-> "en-US-AndrewNeural", rate |-> "+20%", pitch |-> "+0Hz",
     random_per_worker |-> TRUE]

CompiledDelays == [send_keys_ms |-> 800, claude_boot_s |-> 4]

CompiledDefaults ==
    [voice |-> CompiledVoice, delays |-> CompiledDelays,
     worker_voice_assignments |-> EmptyDict]

\* The keys of DEFAULT_CONFIG whose values are mutable objects (dicts).
NestedKeys == {"voice", "delays", "worker_voice_assignments"}

VARIABLES
    configFile,   \* CONFIG_FILE: [status: "missing" | "malformed" | "ok", doc]
    defaults,     \* the dict objects held by the module-level DEFAULT_CONFIG
    sessions,     \* tmux sessions that exist (by name)
    stateFiles,   \* STATE_DIR/<session>.json files that exist
    worktrees,    \* issue ids whose .worktrees/<id> directory exists
    overfull,     \* history: the pool has been oversubscribed (see OverfullAfter)
    ret,          \* the last handler call: [op, arg, raised, val, saved]
    panes,        \* the panes of the tmux session, in list-panes order
    placement,    \* the last _find_best_split call: its inputs and its result
    lock,         \* AUDIO_LOCK_FILE's flock: "free", a speak caller, or "hook"
    speakers,     \* per speak caller: [pc, priority, blocking, attempts, held, result]
    streams,      \* the speak callers whose player process is running
    audioCache,   \* AUDIO_CACHE_DIR: the (voice, rate, text) keys rendered so far
    wave,         \* the smart_spawn_wave call in flight and its result
    typed,        \* per pane id: the keystrokes tmux send-keys delivered to it
    sessionKeys,  \* per session name: the keystrokes tmux send-keys delivered to it
    provision,    \* the last spawn_worker / spawn_worker_in_pane call and its result
    waits,        \* per wait_for_signal caller: [pc, channel, proc, signalled, result]
    query,        \* the last list_panes / list_workers / get_worker_status call
    alloc         \* per peer controller: its get_worker_voice call, [pc, worker, seen, def, result]

cfgVars == <<configFile, defaults, overfull>>

lifeVars == <<sessions, stateFiles, worktrees>>

paneVars == <<panes, placement>>

audioVars == <<lock, speakers, streams, audioCache>>

waveVars == <<wave, typed>>

spawnVars == <<sessionKeys, provision>>

signalVars == <<waits>>

queryVars == <<query>>

raceVars == <<alloc>>

vars ==
    <<configFile, defaults, sessions, stateFiles, worktrees, overfull, ret,
      panes, placement, lock, speakers, streams, audioCache, wave, typed,
      sessionKeys, provision, waits, query, alloc>>

\* DEFAULT_CONFIG as the running process sees it: immutable scalars, and the
\* three dict objects in their current state.
DEFAULT_CONFIG(df) ==
    [max_concurrent_workers |-> 4,
     default_layout |-> "2x2",
     min_pane_width |-> 80,
     min_pane_height |-> 24,
     conductor_mode |-> "session",
     voice |-> df.voice,
     delays |-> df.delays,
     worker_voice_assignments |-> df.worker_voice_assignments,
     voice_pool_index |-> 0]

\* The store a handler reads and writes: the file and the default objects.
Store == [file |-> configFile, def |-> defaults]

NoFile == [status |-> "missing", doc |-> EmptyDict]

\* load_config: the document, and which of its nested dicts are the very
\* objects of DEFAULT_CONFIG (DEFAULT_CONFIG.copy() is shallow, and the merge
\* stores the default's value itself).
load_config(st) ==
    IF st.file.status = "ok"
    THEN LET stored == st.file.doc
             dflt == DEFAULT_CONFIG(st.def)
         IN [doc |-> [k \in (DOMAIN stored) \cup (DOMAIN dflt) |->
                         IF k \in DOMAIN stored THEN stored[k] ELSE dflt[k]],
             shared |-> NestedKeys \ (DOMAIN stored)]
    ELSE [doc |-> DEFAULT_CONFIG(st.def), shared |-> NestedKeys]

\* Mutant: only the keys the program knows are written.
save_config_KnownKeysOnly(config) ==
    [status |-> "ok",
     doc |-> [k \in (DOMAIN config) \cap (DOMAIN DEFAULT_CONFIG(CompiledDefaults)) |->
                 config[k]]]

\* save_config: json.dump of the whole document.  Every value of a document
\* is a string, an integer, a boolean or an object with string keys, which
\* json.dump and json.load carry over unchanged.
save_config(config) == [status |-> "ok", doc |-> config]

\* The default objects after a handler mutated the nested dict `key` of a
\* loaded document in place, leaving it with value `v`.
MutateInPlace(st, L, key, v) ==
    IF key \in L.shared THEN [st.def EXCEPT ![key] = v] ELSE st.def

(***************************************************************************)
(* Voice pool: get_worker_voice, release_worker_voice                      *)
(***************************************************************************)
\* What a handler hands back: a value or an exception, and the store after.
\* The value is tagged with its kind ([voice |-> v], [config |-> d], ...);
\* saved: whether the call went through save_config.
Return(v, st) == [raised |-> FALSE, val |-> v, st |-> st, saved |-> FALSE]

Raise(e, st) == [raised |-> TRUE, val |-> e, st |-> st, saved |-> FALSE]

Saved(v, config, def) ==
    [raised |-> FALSE, val |-> v, st |-> [file |-> save_config(config), def |-> def],
     saved |-> TRUE]

\* Mutant: the scan takes the voice at the cursor without looking at `used`.
FreeOffsets_IgnoreUsed(pool_index, used) == 0..(Len(VOICE_POOL) - 1)

\* Mutant: the scan stops one voice short of the whole pool.
FreeOffsets_OneShort(pool_index, used) ==
    {i \in 0..(Len(VOICE_POOL) - 2) :
        VOICE_POOL[((pool_index + i) % Len(VOICE_POOL)) + 1] \notin used}

\* Lines 116-123: the offsets i, from the cursor, at which the voice is unused.
FreeOffsets(pool_index, used) ==
    {i \in 0..(Len(VOICE_POOL) - 1) :
        VOICE_POOL[((pool_index + i) % Len(VOICE_POOL)) + 1] \notin used}

\* Mutant: the voice is assigned and the cursor stays where it was.
AssignVoice_CursorStays(st, L, worker_id, voice, new_index) ==
    LET assignments == DictSet(L.doc.worker_voice_assignments, worker_id, voice)
        config == [L.doc EXCEPT !.worker_voice_assignments = assignments]
    IN Saved([voice |-> voice], config,
             MutateInPlace(st, L, "worker_voice_assignments", assignments))

\* Mutant: the cursor is not wrapped at the end of the pool.
AssignVoice_CursorPastEnd(st, L, worker_id, voice, new_index) ==
    LET assignments == DictSet(L.doc.worker_voice_assignments, worker_id, voice)
        config == [L.doc EXCEPT !.worker_voice_assignments = assignments,
                                !.voice_pool_index =
                                    IF new_index = 0 THEN Len(VOICE_POOL) ELSE new_index]
    IN Saved([voice |-> voice], config,
             MutateInPlace(st, L, "worker_voice_assignments", assignments))

\* Lines 119-123 and 126-131: assign `voice`, move the cursor, save.
AssignVoice(st, L, worker_id, voice, new_index) ==
    LET assignments == DictSet(L.doc.worker_voice_assignments, worker_id, voice)
        config == [L.doc EXCEPT !.worker_voice_assignments = assignments,
                                !.voice_pool_index = new_index]
    IN Saved([voice |-> voice], config,
             MutateInPlace(st, L, "worker_voice_assignments", assignments))

\* Mutant: no "already assigned?" test, every call assigns anew.
get_worker_voice_NoReentry(st, worker_id) ==
    LET L == load_config(st)
        config == L.doc
        pool_index == config.voice_pool_index
        N == Len(VOICE_POOL)
        free == FreeOffsets(pool_index, Range(config.worker_voice_assignments))
    IN IF ~config.voice.random_per_worker
       THEN Return([voice |-> config.voice.default], st)
       ELSE IF free # {}
       THEN AssignVoice(st, L, worker_id,
                        VOICE_POOL[((pool_index + Min(free)) % N) + 1],
                        (pool_index + Min(free) + 1) % N)
       ELSE AssignVoice(st, L, worker_id, VOICE_POOL[(pool_index % N) + 1],
                        (pool_index + 1) % N)

\* Mutant: with the pool exhausted the cursor jumps over a voice.
get_worker_voice_ReuseSkipsOne(st, worker_id) ==
    LET L == load_config(st)
        config == L.doc
    IN IF "random_per_worker" \notin DOMAIN config.voice
       THEN Raise([error |-> "KeyError"], st)
       ELSE IF ~config.voice.random_per_worker
       THEN IF "default" \notin DOMAIN config.voice
            THEN Raise([error |-> "KeyError"], st)
            ELSE Return([voice |-> config.voice.default], st)
       ELSE LET assignments == config.worker_voice_assignments
                pool_index == config.voice_pool_index
                N == Len(VOICE_POOL)
                free == FreeOffsets(pool_index, Range(assignments))
            IN IF worker_id \in DOMAIN assignments
               THEN Return([voice |-> assignments[worker_id]], st)
               ELSE IF free # {}
               THEN AssignVoice(st, L, worker_id,
                                VOICE_POOL[((pool_index + Min(free)) % N) + 1],
                                (pool_index + Min(free) + 1) % N)
               ELSE AssignVoice(st, L, worker_id,
                                VOICE_POOL[((pool_index + 1) % N) + 1],
                                (pool_index + 2) % N)

\* Lines 98-131.
get_worker_voice(st, worker_id) ==
    LET L == load_config(st)
        config == L.doc
    IN IF "random_per_worker" \notin DOMAIN config.voice
       THEN Raise([error |-> "KeyError"], st)
       ELSE IF ~config.voice.random_per_worker
       THEN IF "default" \notin DOMAIN config.voice
            THEN Raise([error |-> "KeyError"], st)
            ELSE Return([voice |-> config.voice.default], st)
       ELSE LET assignments == config.worker_voice_assignments
                used_voices == Range(assignments)
                pool_index == config.voice_pool_index
                N == Len(VOICE_POOL)
                free == FreeOffsets(pool_index, used_voices)
            IN IF worker_id \in DOMAIN assignments
               THEN Return([voice |-> assignments[worker_id]], st)
               ELSE IF free # {}
               THEN AssignVoice(st, L, worker_id,
                                VOICE_POOL[((pool_index + Min(free)) % N) + 1],
                                (pool_index + Min(free) + 1) % N)
               ELSE AssignVoice(st, L, worker_id,
                                VOICE_POOL[(pool_index % N) + 1],
                                (pool_index + 1) % N)

\* Mutant: releasing one worker's voice drops every assignment.
release_worker_voice_ClearsAll(st, worker_id) ==
    LET L == load_config(st)
        assignments == L.doc.worker_voice_assignments
    IN IF worker_id \in DOMAIN assignments
       THEN Saved([none |-> TRUE],
                  [L.doc EXCEPT !.worker_voice_assignments = EmptyDict],
                  MutateInPlace(st, L, "worker_voice_assignments", EmptyDict))
       ELSE Return([none |-> TRUE], st)

\* Mutant: releasing a voice sets the cursor back onto it.
release_worker_voice_RewindsCursor(st, worker_id) ==
    LET L == load_config(st)
        assignments == L.doc.worker_voice_assignments
    IN IF worker_id \in DOMAIN assignments
       THEN LET left == DictDel(assignments, worker_id)
                at == {i \in 0..(Len(VOICE_POOL) - 1) :
                          VOICE_POOL[i + 1] = assignments[worker_id]}
            IN Saved([none |-> TRUE],
                     [L.doc EXCEPT !.worker_voice_assignments = left,
                                   !.voice_pool_index = Min(at \cup {Len(VOICE_POOL)})
                                                           % Len(VOICE_POOL)],
                     MutateInPlace(st, L, "worker_voice_assignments", left))
       ELSE Return([none |-> TRUE], st)

\* Lines 134-141.
release_worker_voice(st, worker_id) ==
    LET L == load_config(st)
        assignments == L.doc.worker_voice_assignments
    IN IF worker_id \in DOMAIN assignments
       THEN LET left == DictDel(assignments, worker_id)
            IN Saved([none |-> TRUE], [L.doc EXCEPT !.worker_voice_assignments = left],
                     MutateInPlace(st, L, "worker_voice_assignments", left))
       ELSE Return([none |-> TRUE], st)

(***************************************************************************)
(* Configuration tools: get_config, set_config, reset_voice_assignments    *)
(***************************************************************************)
\* One optional parameter of set_config applied to a dict entry.
SetIf(d, k, opt) == IF IsNone(opt) THEN d ELSE DictSet(d, k, opt[1])

set_config(st, max_concurrent_workers, default_layout, default_voice, voice_rate, voice_pitch, random_voices, send_keys_delay_ms, claude_boot_delay_s) ==
    LET L == load_config(st)
        voice == SetIf(SetIf(SetIf(SetIf(L.doc.voice,
                     "default", default_voice),
                     "rate", voice_rate),
                     "pitch", voice_pitch),
                     "random_per_worker", random_voices)
        delays == SetIf(SetIf(L.doc.delays,
                     "send_keys_ms", send_keys_delay_ms),
                     "claude_boot_s", claude_boot_delay_s)
        top == SetIf(SetIf(L.doc,
                     "max_concurrent_workers", max_concurrent_workers),
                     "default_layout", default_layout)
        config == [top EXCEPT !.voice = voice, !.delays = delays]
    IN Saved([config |-> config], config,
             [st.def EXCEPT
                !.voice = MutateInPlace(st, L, "voice", voice).voice,
                !.delays = MutateInPlace(st, L, "delays", delays).delays])

\* Lines 2106-2110: a new empty dict replaces the assignments (no in-place edit).
reset_voice_assignments(st) ==
    LET L == load_config(st)
        config == [L.doc EXCEPT !.worker_voice_assignments = EmptyDict,
                                !.voice_pool_index = 0]
    IN Saved([text |-> "Voice assignments cleared"], config, st.def)

get_config(st) == Return([config |-> load_config(st).doc], st)

(***************************************************************************)
(* Actions of the configuration store and the voice pool                   *)
(***************************************************************************)
\* The record of a finished call.
Called(op, arg, r) ==
    [op |-> op, arg |-> arg, raised |-> r.raised, val |-> r.val, saved |-> r.saved]

\* The assignment map as a handler that loads the configuration now sees it.
AssignmentsOf(st) == load_config(st).doc.worker_voice_assignments

\* History: whether more workers than the pool has voices have held an
\* assignment at once since the map was last empty.
OverfullAfter(st) ==
    IF DOMAIN AssignmentsOf(st) = {} THEN FALSE
    ELSE overfull \/ Cardinality(DOMAIN AssignmentsOf(st)) > Len(VOICE_POOL)

Commit(op, arg, r) ==
    /\ configFile' = r.st.file
    /\ defaults' = r.st.def
    /\ overfull' = OverfullAfter(r.st)
    /\ ret' = Called(op, arg, r)

GetWorkerVoice(worker_id) ==
    /\ Commit("get_worker_voice", worker_id, get_worker_voice(Store, worker_id))
    /\ UNCHANGED <<lifeVars, paneVars, audioVars, waveVars, spawnVars, signalVars, queryVars, raceVars>>

ReleaseWorkerVoice(worker_id) ==
    /\ Commit("release_worker_voice", worker_id,
              release_worker_voice(Store, worker_id))
    /\ UNCHANGED <<lifeVars, paneVars, audioVars, waveVars, spawnVars, signalVars, queryVars, raceVars>>

SetConfig(max_concurrent_workers, default_layout, default_voice, voice_rate, voice_pitch, random_voices, send_keys_delay_ms, claude_boot_delay_s) ==
    /\ Commit("set_config", 0,
              set_config(Store, max_concurrent_workers, default_layout,
                         default_voice, voice_rate, voice_pitch, random_voices,
                         send_keys_delay_ms, claude_boot_delay_s))
    /\ UNCHANGED <<lifeVars, paneVars, audioVars, waveVars, spawnVars, signalVars, queryVars, raceVars>>

ResetVoiceAssignments ==
    /\ Commit("reset_voice_assignments", 0, reset_voice_assignments(Store))
    /\ UNCHANGED <<lifeVars, paneVars, audioVars, waveVars, spawnVars, signalVars, queryVars, raceVars>>

GetConfig ==
    /\ Commit("get_config", 0, get_config(Store))
    /\ UNCHANGED <<lifeVars, paneVars, audioVars, waveVars, spawnVars, signalVars, queryVars, raceVars>>

\* Mutant: kill_worker gives up with an exception when tmux kill-session
\* finds no session.
KillWorker_RaisesWhenAbsent(session, cleanup_worktree, project_dir, git_ok) ==
    /\ session \notin sessions
    /\ ret' = [op |-> "kill_worker", arg |-> session, raised |-> TRUE,
               val |-> [exception |-> "CalledProcessError"], saved |-> FALSE]
    /\ UNCHANGED <<cfgVars, lifeVars, paneVars, audioVars, waveVars, spawnVars,
                   signalVars, queryVars, raceVars>>

\* Mutant: a worktree removal that fails puts the status file back.
KillWorker_FailureKeepsStateFile(session, cleanup_worktree, project_dir, git_ok) ==
    LET try_remove == cleanup_worktree /\ ~IsNone(project_dir)
                      /\ session \in worktrees
    IN /\ (~try_remove => git_ok)
       /\ sessions' = sessions \ {session}
       /\ stateFiles' = IF git_ok THEN stateFiles \ {session} ELSE stateFiles
       /\ worktrees' = IF try_remove /\ git_ok THEN worktrees \ {session}
                       ELSE worktrees
       /\ Commit("kill_worker", session,
                 [release_worker_voice(Store, session)
                     EXCEPT !.val = [messages |-> <<"Killed session">>]])
       /\ sessionKeys' = DictDel(sessionKeys, session)
       /\ UNCHANGED <<paneVars, audioVars, waveVars, provision, signalVars, queryVars, raceVars>>

\* kill_worker: kill the session, drop the status file, release the voice,
\* optionally remove the worktree. git_ok is the exit status of
\* `git worktree remove`, read only when the command is issued.
KillWorker(session, cleanup_worktree, project_dir, git_ok) ==
    LET killed == session \in sessions
        m1 == IF killed THEN <<"Killed session">>
              ELSE <<"Session not found or already killed">>
        m2 == IF session \in stateFiles THEN <<"Removed state file">> ELSE <<>>
        rel == release_worker_voice(Store, session)
        try_remove == cleanup_worktree /\ ~IsNone(project_dir)
                      /\ session \in worktrees
        m3 == IF ~cleanup_worktree THEN <<>>
              ELSE IF IsNone(project_dir)
                   THEN <<"Warning: project_dir required for worktree cleanup">>
              ELSE IF session \in worktrees
                   THEN IF git_ok THEN <<"Removed worktree">>
                        ELSE <<"Failed to remove worktree">>
              ELSE <<"Worktree not found">>
    IN /\ (~try_remove => git_ok)
       /\ sessions' = sessions \ {session}
       /\ stateFiles' = stateFiles \ {session}
       /\ worktrees' = IF try_remove /\ git_ok THEN worktrees \ {session}
                       ELSE worktrees
       /\ Commit("kill_worker", session, [rel EXCEPT !.val = [messages |-> m1 \o m2 \o m3]])
       /\ sessionKeys' = DictDel(sessionKeys, session)
       /\ UNCHANGED <<paneVars, audioVars, waveVars, provision, signalVars, queryVars, raceVars>>

(***************************************************************************)
(* The environment's hand on the configuration file                        *)
(***************************************************************************)
\* Documents a user may have written by hand: an empty object, two that set
\* only part of the voice section (the default voice; randomization switched
\* off), one with a key the program does not know.
ExternalDocs ==
    { EmptyDict,
      [voice |-> [default |-> "en-US-AriaNeural"]],
      [voice |-> [random_per_worker |-> FALSE]],
      [theme |-> "dark", voice_pool_index |-> 1] }

EnvCalled(op) ==
    [op |-> op, arg |-> 0, raised |-> FALSE, val |-> [none |-> TRUE], saved |-> FALSE]

EnvRemoveFile ==
    /\ configFile.status # "missing"
    /\ configFile' = NoFile
    /\ ret' = EnvCalled("env_remove_file")
    /\ overfull' = OverfullAfter([file |-> configFile', def |-> defaults])
    /\ UNCHANGED <<defaults, lifeVars, paneVars, audioVars, waveVars, spawnVars, signalVars, queryVars, raceVars>>

EnvCorruptFile ==
    /\ configFile.status # "malformed"
    /\ configFile' = [status |-> "malformed", doc |-> EmptyDict]
    /\ ret' = EnvCalled("env_corrupt_file")
    /\ overfull' = OverfullAfter([file |-> configFile', def |-> defaults])
    /\ UNCHANGED <<defaults, lifeVars, paneVars, audioVars, waveVars, spawnVars, signalVars, queryVars, raceVars>>

EnvWriteFile(doc) ==
    /\ configFile' = [status |-> "ok", doc |-> doc]
    /\ ret' = EnvCalled("env_write_file")
    /\ overfull' = OverfullAfter([file |-> configFile', def |-> defaults])
    /\ UNCHANGED <<defaults, lifeVars, paneVars, audioVars, waveVars, spawnVars, signalVars, queryVars, raceVars>>

(***************************************************************************)
(* Placement: list_panes, _find_best_split                                 *)
(***************************************************************************)
\* Most panes a session holds in the placement runs.
MaxPanes == 3

\* The keystrokes a session receives before send_keys calls on it stop.
MaxTyped == 4

\* list_panes: the panes, or [] when tmux exits non-zero (lines 1099-1100).
list_panes(tmux_ok) == IF tmux_ok THEN panes ELSE <<>>

Area(p) == p.width * p.height

\* Mutant: a sort that is not stable, a pane going before the panes of its
\* own area.
RECURSIVE InsertByArea_BeforeEquals(_, _)
InsertByArea_BeforeEquals(sorted, p) ==
    IF sorted = <<>> THEN <<p>>
    ELSE IF Area(Head(sorted)) > Area(p)
         THEN <<Head(sorted)>> \o InsertByArea_BeforeEquals(Tail(sorted), p)
         ELSE <<p>> \o sorted

\* sorted(..., reverse=True) is stable: a pane goes behind every pane whose
\* area is at least its own.
RECURSIVE InsertByArea(_, _)
InsertByArea(sorted, p) ==
    IF sorted = <<>> THEN <<p>>
    ELSE IF Area(Head(sorted)) >= Area(p)
         THEN <<Head(sorted)>> \o InsertByArea(Tail(sorted), p)
         ELSE <<p>> \o sorted

RECURSIVE SortedByArea(_)
SortedByArea(ps) ==
    IF ps = <<>> THEN <<>>
    ELSE InsertByArea(SortedByArea(SubSeq(ps, 1, Len(ps) - 1)), ps[Len(ps)])

\* Line 186: half_w >= min_w and h >= min_h.
FitsHorizontal(p, min_w, min_h) == (p.width \div 2) >= min_w /\ p.height >= min_h

\* Mutant: the vertical test takes the whole height for the half.
FitsVertical_WholeHeight(p, min_w, min_h) == p.width >= min_w /\ p.height >= min_h

\* Line 195: w >= min_w and half_h >= min_h.
FitsVertical(p, min_w, min_h) == p.width >= min_w /\ (p.height \div 2) >= min_h

\* Mutant: the reason of a new window says nothing but its text.
NewWindow_BareReason(reason) ==
    [action |-> "new_window", target_pane |-> None, reason |-> [text |-> reason.text]]

NewWindow(reason) == [action |-> "new_window", target_pane |-> None, reason |-> reason]

\* Mutant: the candidates are taken in list order, the sort is lost.
Candidates_Unsorted(ps, target_pane) ==
    IF ~IsNone(target_pane)
    THEN SelectSeq(ps, LAMBDA p : p.pane_id = target_pane[1])
    ELSE ps

\* Mutant: an explicit target is not looked at.
Candidates_IgnoreTarget(ps, target_pane) == SortedByArea(ps)

\* Lines 169-179.
Candidates(ps, target_pane) ==
    IF ~IsNone(target_pane)
    THEN SelectSeq(ps, LAMBDA p : p.pane_id = target_pane[1])
    ELSE SortedByArea(ps)

\* _find_best_split on the panes list_panes returned.
find_best_split(ps, min_w, min_h, target_pane) ==
    LET candidates == Candidates(ps, target_pane)
        fits == {i \in 1..Len(candidates) :
                    \/ FitsHorizontal(candidates[i], min_w, min_h)
                    \/ FitsVertical(candidates[i], min_w, min_h)}
    IN IF ps = <<>>
       THEN NewWindow([text |-> "No panes found in session"])
       ELSE IF ~IsNone(target_pane) /\ candidates = <<>>
       THEN NewWindow([text |-> "Target pane not found", pane |-> target_pane[1]])
       ELSE IF fits = {}
       THEN NewWindow([text |-> "No pane large enough to split",
                       min_w |-> min_w, min_h |-> min_h])
       ELSE LET pane == candidates[Min(fits)]
            IN IF FitsHorizontal(pane, min_w, min_h)
               THEN [action |-> "split_h", target_pane |-> Some(pane.pane_id),
                     reason |-> [text |-> "Horizontal split", pane |-> pane.pane_id,
                                 w |-> pane.width, h |-> pane.height,
                                 half_w |-> pane.width \div 2]]
               ELSE [action |-> "split_v", target_pane |-> Some(pane.pane_id),
                     reason |-> [text |-> "Vertical split", pane |-> pane.pane_id,
                                 w |-> pane.width, h |-> pane.height,
                                 half_h |-> pane.height \div 2]]

FindBestSplit(tmux_ok, min_w, min_h, target_pane) ==
    /\ placement' =
          [called |-> TRUE, seen |-> list_panes(tmux_ok), min_w |-> min_w,
           min_h |-> min_h, target_pane |-> target_pane,
           result |-> find_best_split(list_panes(tmux_ok), min_w, min_h, target_pane)]
    /\ UNCHANGED <<cfgVars, lifeVars, ret, panes, audioVars, waveVars, spawnVars, signalVars, queryVars, raceVars>>

\* tmux gains a pane of the given size (the user splits or resizes a window).
EnvOpenPane(w, h) ==
    /\ Len(panes) < MaxPanes
    /\ panes' = Append(panes, [pane_id |-> Len(panes) + 1, width |-> w, height |-> h])
    /\ UNCHANGED <<cfgVars, lifeVars, ret, placement, audioVars, waveVars, spawnVars, signalVars, queryVars, raceVars>>

(***************************************************************************)
(* Audio: speak and the lock on AUDIO_LOCK_FILE                            *)
(***************************************************************************)
\* speak calls in flight, each in a server process of its own; the hook
\* script audio-announcer.sh takes the same lock from outside.
Callers == {"c1", "c2"}

\* Line 420: for _ in range(50).
LockRetries == 50

Idle ==
    [pc |-> "idle", priority |-> FALSE, blocking |-> FALSE, attempts |-> 0,
     held |-> FALSE, result |-> "none"]

\* Mutant: a best-effort caller waits for the lock like a priority caller.
AfterAttempt_BestEffortWaits(s, got) ==
    IF got
    THEN [s EXCEPT !.attempts = @ + 1, !.held = TRUE, !.pc = "play"]
    ELSE IF s.attempts + 1 < LockRetries
         THEN [s EXCEPT !.attempts = @ + 1]
         ELSE [s EXCEPT !.attempts = @ + 1, !.pc = "play"]

\* Mutant: a priority caller that ran out of attempts keeps trying.
AfterAttempt_NoGiveUp(s, got) ==
    IF got
    THEN [s EXCEPT !.attempts = @ + 1, !.held = TRUE, !.pc = "play"]
    ELSE IF s.priority
         THEN [s EXCEPT !.attempts = IF @ < LockRetries + 1 THEN @ + 1 ELSE @]
         ELSE [s EXCEPT !.attempts = @ + 1, !.pc = "done", !.result = "busy"]

\* Lines 418-434: the caller after one flock(LOCK_EX | LOCK_NB); got says
\* whether the lock was free. A priority caller sleeps and tries again up to
\* LockRetries times, then goes on without the lock; a best-effort caller
\* returns "Audio busy, skipped".
AfterAttempt(s, got) ==
    IF got
    THEN [s EXCEPT !.attempts = @ + 1, !.held = TRUE, !.pc = "play"]
    ELSE IF s.priority
         THEN IF s.attempts + 1 < LockRetries
              THEN [s EXCEPT !.attempts = @ + 1]
              ELSE [s EXCEPT !.attempts = @ + 1, !.pc = "play"]
         ELSE [s EXCEPT !.attempts = @ + 1, !.pc = "done", !.result = "busy"]

\* Mutant: the finally clause frees the lock whoever holds it.
Unlocked_WhoeverHolds(c, result) == "free"

\* Mutant: the lock is released on the normal return only, not in a finally.
Unlocked_OnSuccessOnly(c, result) ==
    IF lock = c /\ result = "speaking" THEN "free" ELSE lock

\* Lines 459-465, the finally clause: LOCK_UN on the caller's own descriptor
\* frees the lock if this caller holds it and touches no other holder's lock.
Unlocked(c, result) == IF lock = c THEN "free" ELSE lock

\* Lines 382-412: resolve voice and rate, render the audio unless cached.
\* tts is edge-tts's outcome, read only when the audio is not cached.
SpeakCall(c, text, voice, rate, worker_id, blocking, priority, tts) ==
    LET config == load_config(Store).doc
        gv == IF IsNone(voice) /\ ~IsNone(worker_id)
              THEN get_worker_voice(Store, worker_id[1])
              ELSE Return([voice |-> IF IsNone(voice) THEN config.voice.default
                                     ELSE voice[1]], Store)
        the_rate == IF IsNone(rate) THEN config.voice.rate ELSE rate[1]
        cache_key == <<gv.val.voice, the_rate, text>>
        cached == cache_key \in audioCache
        started == [Idle EXCEPT !.priority = priority, !.blocking = blocking]
    IN /\ speakers[c].pc = "idle"
       /\ configFile' = gv.st.file
       /\ defaults' = gv.st.def
       /\ overfull' = OverfullAfter(gv.st)
       /\ IF gv.raised
          THEN /\ tts = "ok"
               /\ speakers' = [speakers EXCEPT
                                 ![c] = [started EXCEPT !.pc = "done", !.result = "raised"]]
               /\ UNCHANGED audioCache
          ELSE /\ (cached => tts = "ok")
               /\ audioCache' = IF tts = "ok" THEN audioCache \cup {cache_key}
                                ELSE audioCache
               /\ speakers' = [speakers EXCEPT ![c] =
                     IF tts = "ok" THEN [started EXCEPT !.pc = "acquire"]
                     ELSE [started EXCEPT !.pc = "done", !.result = tts]]
       /\ UNCHANGED <<lifeVars, ret, paneVars, lock, streams, waveVars, spawnVars, signalVars, queryVars, raceVars>>

\* Lines 417-434: one attempt at the lock.
SpeakTryLock(c) ==
    /\ speakers[c].pc = "acquire"
    /\ speakers' = [speakers EXCEPT ![c] = AfterAttempt(speakers[c], lock = "free")]
    /\ lock' = IF lock = "free" THEN c
               ELSE IF speakers'[c].pc = "done" THEN Unlocked(c, "busy") ELSE lock
    /\ UNCHANGED <<cfgVars, lifeVars, ret, paneVars, streams, audioCache, waveVars, spawnVars, signalVars, queryVars, raceVars>>

\* Mutant: every caller waits for its player under the lock.
SpeakPlay_AlwaysWaits(c, player) ==
    /\ speakers[c].pc = "play"
    /\ IF player = "none"
       THEN /\ speakers' = [speakers EXCEPT ![c].pc = "done", ![c].result = "no_player"]
            /\ lock' = Unlocked(c, "no_player")
            /\ UNCHANGED streams
       ELSE /\ speakers' = [speakers EXCEPT ![c].pc = "playing"]
            /\ streams' = streams \cup {c}
            /\ UNCHANGED lock
    /\ UNCHANGED <<cfgVars, lifeVars, ret, paneVars, audioCache, waveVars, spawnVars, signalVars, queryVars, raceVars>>

\* Mutant: the lock is dropped as soon as the player has been started, also
\* by a caller that waits for the player.
SpeakPlay_ReleasesAtStart(c, player) ==
    /\ speakers[c].pc = "play"
    /\ IF player = "none"
       THEN /\ speakers' = [speakers EXCEPT ![c].pc = "done", ![c].result = "no_player"]
            /\ UNCHANGED streams
       ELSE IF speakers[c].blocking \/ speakers[c].priority
       THEN /\ speakers' = [speakers EXCEPT ![c].pc = "playing"]
            /\ streams' = streams \cup {c}
       ELSE /\ speakers' = [speakers EXCEPT ![c].pc = "done", ![c].result = "speaking"]
            /\ streams' = streams \cup {c}
    /\ lock' = Unlocked(c, "speaking")
    /\ UNCHANGED <<cfgVars, lifeVars, ret, paneVars, audioCache, waveVars, spawnVars, signalVars, queryVars, raceVars>>

\* Lines 436-457: the first installed player is started; player = "none"
\* when mpv, ffplay and cvlc are all missing. A priority or blocking call
\* waits for the player (subprocess.run), any other call starts it and
\* returns (subprocess.Popen).
SpeakPlay(c, player) ==
    /\ speakers[c].pc = "play"
    /\ IF player = "none"
       THEN /\ speakers' = [speakers EXCEPT ![c].pc = "done", ![c].result = "no_player"]
            /\ lock' = Unlocked(c, "no_player")
            /\ UNCHANGED streams
       ELSE IF speakers[c].blocking \/ speakers[c].priority
       THEN /\ speakers' = [speakers EXCEPT ![c].pc = "playing"]
            /\ streams' = streams \cup {c}
            /\ UNCHANGED lock
       ELSE /\ speakers' = [speakers EXCEPT ![c].pc = "done", ![c].result = "speaking"]
            /\ streams' = streams \cup {c}
            /\ lock' = Unlocked(c, "speaking")
    /\ UNCHANGED <<cfgVars, lifeVars, ret, paneVars, audioCache, waveVars, spawnVars, signalVars, queryVars, raceVars>>

\* Line 448: subprocess.run(cmd, check=True) comes back; a non-zero exit is
\* a CalledProcessError, which leaves speak through the finally clause.
SpeakPlayerExit(c, exit_ok) ==
    /\ speakers[c].pc = "playing"
    /\ streams' = streams \ {c}
    /\ speakers' = [speakers EXCEPT ![c].pc = "done",
                      ![c].result = IF exit_ok THEN "speaking" ELSE "raised"]
    /\ lock' = Unlocked(c, IF exit_ok THEN "speaking" ELSE "raised")
    /\ UNCHANGED <<cfgVars, lifeVars, ret, paneVars, audioCache, waveVars, spawnVars, signalVars, queryVars, raceVars>>

\* The result is handed to the caller; the caller may call again.
SpeakReturn(c) ==
    /\ speakers[c].pc = "done"
    /\ speakers' = [speakers EXCEPT ![c] = Idle]
    /\ UNCHANGED <<cfgVars, lifeVars, ret, paneVars, lock, streams, audioCache, waveVars, spawnVars, signalVars, queryVars, raceVars>>

\* A player started with Popen ends on its own.
EnvStreamEnds(c) ==
    /\ c \in streams
    /\ speakers[c].pc # "playing"
    /\ streams' = streams \ {c}
    /\ UNCHANGED <<cfgVars, lifeVars, ret, paneVars, lock, speakers, audioCache, waveVars, spawnVars, signalVars, queryVars, raceVars>>

\* The hook script takes and drops the lock.
EnvHookLock ==
    /\ lock = "free"
    /\ lock' = "hook"
    /\ UNCHANGED <<cfgVars, lifeVars, ret, paneVars, speakers, streams, audioCache, waveVars, spawnVars, signalVars, queryVars, raceVars>>

EnvHookUnlock ==
    /\ lock = "hook"
    /\ lock' = "free"
    /\ UNCHANGED <<cfgVars, lifeVars, ret, paneVars, speakers, streams, audioCache, waveVars, spawnVars, signalVars, queryVars, raceVars>>

(***************************************************************************)
(* Provisioning: spawn_worker_in_pane, smart_spawn, smart_spawn_wave       *)
(***************************************************************************)
\* What tmux, git and bd do during one smart_spawn:
\*   session_ok  tmux display-message names the session
\*   panes_ok    tmux list-panes exits 0
\*   create      split-window / new-window: "ok", "fail" (non-zero exit) or
\*               "blank" (exit 0, no pane id printed)
\*   window      the size of the pane of a new window
\*   branch      branch feature/<id> exists already
\*   fault       the command of spawn_worker_in_pane that exits non-zero:
\*               "none", "worktree", "cd", "launch", "text" or "enter"
\*   bd          bd show: "ok", "exit" (non-zero), "raise" (bd not found) or
\*               "json" (output that json.loads rejects)
AllGood ==
    [session_ok |-> TRUE, panes_ok |-> TRUE, create |-> "ok",
     window |-> <<200, 50>>, branch |-> FALSE, fault |-> "none", bd |-> "ok"]

\* Mutant: the worktree is added without looking whether it is there.
WorktreeCommands_NoExistsCheck(exists, branch_exists) ==
    <<"branch --list", IF branch_exists THEN "worktree add" ELSE "worktree add -b">>

\* Lines 275-297 and 1207-1226: the git commands that ensure the worktree.
WorktreeCommands(exists, branch_exists) ==
    IF exists THEN <<>>
    ELSE <<"branch --list", IF branch_exists THEN "worktree add" ELSE "worktree add -b">>

\* The pauses (asyncio.sleep) of a spawn: they deliver nothing to the terminal.
Pauses == {"pane wait", "boot wait", "settle delay"}

IsKeystroke(step) == step \notin Pauses

\* Mutant: Enter is pressed first, the text follows it.
send_keys_EnterFirst(keys, submit) ==
    IF submit THEN <<"enter", "settle delay", keys>> ELSE <<keys>>

\* Lines 231-248: the steps of send_keys in order. The text goes out with
\* tmux send-keys -l; with submit there follow the pause of delay_ms and the
\* Enter key.
send_keys(keys, submit) ==
    <<keys>> \o (IF submit THEN <<"settle delay", "enter">> ELSE <<>>)

\* Lines 1202-1278. The commands run with check=True raise
\* CalledProcessError on a non-zero exit; nothing here catches it. `steps`
\* are the git commands run and after them the steps that completed.
spawn_worker_in_pane(pane_id, issue_id, inject_context, env) ==
    LET exists == issue_id \in worktrees
        git == WorktreeCommands(exists, env.branch)
        wt_failed == ~exists /\ env.fault = "worktree"
        context_text == IF ~inject_context THEN ""
                        ELSE IF env.bd = "ok" THEN "briefing"
                        ELSE IF env.bd = "exit" THEN ""
                        ELSE "fallback"
        plan == <<"cd", "pane wait", "launch", "boot wait">>
                \o (IF context_text # "" THEN send_keys("text", TRUE) ELSE <<>>)
        failing == {k \in 1..Len(plan) : plan[k] = env.fault}
        done == IF wt_failed THEN <<>>
                ELSE IF failing = {} THEN plan
                ELSE SubSeq(plan, 1, Min(failing) - 1)
        steps == [k \in 1..Len(done) |->
                     IF done[k] = "text" THEN context_text ELSE done[k]]
        raised == wt_failed \/ failing # {}
    IN [raised |-> raised,
        val |-> IF raised THEN [exception |-> "CalledProcessError"]
                ELSE [pane_id |-> pane_id, issue_id |-> issue_id,
                      worktree |-> issue_id, branch |-> issue_id,
                      context_injected |-> context_text # ""],
        worktrees |-> IF exists \/ wt_failed THEN worktrees
                      ELSE worktrees \cup {issue_id},
        git |-> git,
        steps |-> git \o steps,
        keys |-> SelectSeq(steps, IsKeystroke)]

\* tmux split-window on the target: an even split, the new pane listed after
\* the one it was cut from.
SplitAt(ps, k, horizontal) ==
    LET p == ps[k]
        kept == IF horizontal THEN [p EXCEPT !.width = @ - (@ \div 2)]
                ELSE [p EXCEPT !.height = @ - (@ \div 2)]
        new == [pane_id |-> Len(ps) + 1,
                width |-> IF horizontal THEN p.width \div 2 ELSE p.width,
                height |-> IF horizontal THEN p.height ELSE p.height \div 2]
    IN SubSeq(ps, 1, k - 1) \o <<kept, new>> \o SubSeq(ps, k + 1, Len(ps))

\* Lines 925-976: the panes after the split and the dict handed back.
split_pane(horizontal, target, env) ==
    LET at == {k \in 1..Len(panes) : panes[k].pane_id = target}
    IN IF env.create = "fail" \/ at = {}
       THEN [panes |-> panes, val |-> [error |-> "stderr"]]
       ELSE [panes |-> SplitAt(panes, Min(at), horizontal),
             val |-> [pane_id |-> IF env.create = "ok" THEN Some(Len(panes) + 1)
                                  ELSE None]]

\* Lines 875-917.
create_window(env) ==
    IF env.create = "fail"
    THEN [panes |-> panes, val |-> [error |-> "stderr"]]
    ELSE [panes |-> Append(panes, [pane_id |-> Len(panes) + 1,
                                   width |-> env.window[1],
                                   height |-> env.window[2]]),
          val |-> [pane_id |-> IF env.create = "ok" THEN Some(Len(panes) + 1)
                               ELSE None]]

\* The element of a one-element set; x \in {e} names the value of e.
Only(S) == CHOOSE v \in S : TRUE

(***************************************************************************)
(* Grids: create_grid                                                      *)
(***************************************************************************)
\* A layout is the sequence of its characters.
Digits == <<"0", "1", "2", "3", "4", "5", "6", "7", "8", "9">>

IsDigit(c) == \E d \in DOMAIN Digits : Digits[d] = c

\* str.lower(), on the one letter a layout is split on.
lower(chars) == [k \in DOMAIN chars |-> IF chars[k] = "X" THEN "x" ELSE chars[k]]

\* str.split(sep): the pieces between the separators, empty ones kept.
RECURSIVE split(_, _)
split(chars, sep) ==
    IF \A k \in DOMAIN chars : chars[k] # sep THEN <<chars>>
    ELSE Only({ <<SubSeq(chars, 1, k - 1)>>
                \o split(SubSeq(chars, k + 1, Len(chars)), sep) :
                k \in {Min({j \in DOMAIN chars : chars[j] = sep})} })

RECURSIVE StripBlanks(_)
StripBlanks(chars) ==
    IF chars # <<>> /\ Head(chars) = " " THEN StripBlanks(Tail(chars))
    ELSE IF chars # <<>> /\ chars[Len(chars)] = " "
         THEN StripBlanks(SubSeq(chars, 1, Len(chars) - 1))
    ELSE chars

\* The number a sequence of decimal digits writes.
RECURSIVE Decimal(_)
Decimal(ds) ==
    IF ds = <<>> THEN 0
    ELSE 10 * Decimal(SubSeq(ds, 1, Len(ds) - 1))
         + (CHOOSE d \in 0..9 : Digits[d + 1] = ds[Len(ds)])

\* int(str): blanks around the number dropped, a sign allowed, one digit at
\* least; None stands for ValueError.
int(chars) ==
    LET t == StripBlanks(chars)
        signed == t # <<>> /\ Head(t) \in {"-", "+"}
        ds == IF signed THEN Tail(t) ELSE t
    IN IF ds = <<>> \/ \E k \in DOMAIN ds : ~IsDigit(ds[k]) THEN None
       ELSE Some(IF signed /\ Head(t) = "-" THEN 0 - Decimal(ds) ELSE Decimal(ds))

\* Line 1005: total_panes < 1 or total_panes > 16.
GridRangeError(cols, rows) == cols * rows < 1 \/ cols * rows > 16

\* list[:n]: the first n elements, or all but the last -n when n is negative.
SliceTo(seq, n) ==
    SubSeq(seq, 1, IF n >= 0 THEN (IF n < Len(seq) THEN n ELSE Len(seq))
                   ELSE (IF Len(seq) + n > 0 THEN Len(seq) + n ELSE 0))

\* n calls of split_pane one after the other, on the target or (follow) each
\* on the pane the call before it made: the panes after them, the new ids.
RECURSIVE SplitTimes(_, _, _, _, _)
SplitTimes(ps, target, n, horizontal, follow) ==
    IF n <= 0 THEN [panes |-> ps, ids |-> <<>>]
    ELSE Only({ [panes |-> rest.panes, ids |-> <<Len(ps) + 1>> \o rest.ids] :
                rest \in {SplitTimes(
                    SplitAt(ps, Min({k \in 1..Len(ps) : ps[k].pane_id = target}),
                            horizontal),
                    IF follow THEN Len(ps) + 1 ELSE target,
                    n - 1, horizontal, follow)} })

\* Lines 1041-1057: each row pane is split into its columns.
RECURSIVE SplitRows(_, _, _)
SplitRows(ps, row_panes, cols) ==
    IF row_panes = <<>> THEN [panes |-> ps, ids |-> <<>>]
    ELSE Only({ Only({ [panes |-> rest.panes,
                        ids |-> <<Head(row_panes)>> \o row.ids \o rest.ids] :
                       rest \in {SplitRows(row.panes, Tail(row_panes), cols)} }) :
                row \in {SplitTimes(ps, Head(row_panes), cols - 1, TRUE, TRUE)} })

\* Lines 1059-1069, tmux select-layout in a window w wide and h high: the
\* panes side by side, one above the other, or tiled in rows of equal length
\* (borders and remainders aside).
select_layout(ps, cols, rows, w, h) ==
    LET n == Len(ps)
        tiles == Min({t \in 1..n : t * t >= n})
        across == IF rows = 1 THEN n ELSE IF cols = 1 THEN 1 ELSE tiles
        down == IF rows = 1 THEN 1 ELSE IF cols = 1 THEN n
                ELSE Min({d \in 1..n : d * tiles >= n})
    IN [k \in 1..n |-> [ps[k] EXCEPT !.width = w \div across, !.height = h \div down]]

\* Lines 998-1075. tmux_ok is the exit status of tmux display-message,
\* split_ok whether split_pane succeeds. The starting pane is the only pane
\* of its window.
create_grid(layout, tmux_ok, split_ok) ==
    LET parts == split(lower(layout), "x")
        Error(text) == [panes |-> panes, val |-> [error |-> text]]
        Grid(cols, rows) ==
            IF GridRangeError(cols, rows) THEN Error("Layout must create 1-16 panes")
            ELSE IF ~tmux_ok THEN Error("Could not get current pane")
            ELSE IF ~split_ok /\ (rows > 1 \/ (rows = 1 /\ cols > 1)) THEN Error("stderr")
            ELSE Only({ Only({ [panes |-> select_layout(done.panes, cols, rows,
                                                        panes[1].width, panes[1].height),
                                val |-> [layout |-> layout,
                                         panes |-> SliceTo(done.ids, cols * rows),
                                         count |-> Len(SliceTo(done.ids, cols * rows))]] :
                               done \in {SplitRows(by_row.panes,
                                     SliceTo(<<panes[1].pane_id>> \o by_row.ids, rows),
                                     cols)} }) :
                        by_row \in {SplitTimes(panes, panes[1].pane_id, rows - 1,
                                               FALSE, FALSE)} })
    IN IF Len(parts) # 2 \/ \E k \in DOMAIN parts : IsNone(int(parts[k]))
       THEN Error("Invalid layout format")
       ELSE Grid(int(parts[1])[1], int(parts[2])[1])

CreateGrid(layout, tmux_ok, split_ok) ==
    /\ Len(panes) <= 1
    /\ tmux_ok => Len(panes) = 1
    /\ \E r \in {create_grid(layout, tmux_ok, split_ok)} :
          /\ panes' = r.panes
          /\ ret' = [op |-> "create_grid", arg |-> layout, tmux_ok |-> tmux_ok,
                     split_ok |-> split_ok, raised |-> FALSE, val |-> r.val,
                     saved |-> FALSE]
    /\ UNCHANGED <<cfgVars, lifeVars, placement, audioVars, waveVars, spawnVars, signalVars, queryVars, raceVars>>

\* The user closes the window a grid was made in.
EnvCloseWindow ==
    /\ Len(panes) > 1
    /\ panes' = <<>>
    /\ UNCHANGED <<cfgVars, lifeVars, ret, placement, audioVars, waveVars, spawnVars, signalVars, queryVars, raceVars>>

\* Lines 1287-1375. The result carries the panes, worktrees and keystrokes
\* as the call leaves them, also when it leaves by an exception.
smart_spawn(issue_id, session, target_pane, inject_context, env) ==
    LET config == load_config(Store).doc
        min_w == config.min_pane_width
        min_h == config.min_pane_height
        \* lines 1339-1356
        Place(decided) ==
            IF decided.action = "split_h"
            THEN split_pane(TRUE, decided.target_pane[1], env)
            ELSE IF decided.action = "split_v"
            THEN split_pane(FALSE, decided.target_pane[1], env)
            ELSE create_window(env)
        Failed(decided, result, error) ==
            [raised |-> FALSE, val |-> [error |-> error, placement |-> decided],
             panes |-> result.panes, worktrees |-> worktrees, typed |-> typed]
        \* lines 1366-1375
        Spawned(decided, result, new_pane_id, w) ==
            [raised |-> w.raised,
             val |-> IF w.raised THEN w.val ELSE w.val @@ [placement |-> decided],
             panes |-> result.panes,
             worktrees |-> w.worktrees,
             typed |-> DictSet(typed, new_pane_id, w.keys)]
        \* lines 1358-1375
        After(decided, result) ==
            IF "error" \in DOMAIN result.val
            THEN Failed(decided, result, "Failed to create pane")
            ELSE IF IsNone(result.val.pane_id)
            THEN Failed(decided, result, "No pane_id returned from split/window creation")
            ELSE Only({ Spawned(decided, result, result.val.pane_id[1], w) :
                        w \in {spawn_worker_in_pane(result.val.pane_id[1], issue_id,
                                                    inject_context, env)} })
    IN IF IsNone(session) /\ ~env.session_ok
       THEN [raised |-> FALSE, val |-> [error |-> "Not in a tmux session"],
             panes |-> panes, worktrees |-> worktrees, typed |-> typed]
       ELSE Only({ Only({ After(decided, result) : result \in {Place(decided)} }) :
                   decided \in {find_best_split(list_panes(env.panes_ok),
                                                min_w, min_h, target_pane)} })

\* str.strip() on a token of issue_ids.split(","): a token is a sequence of
\* symbols, 0 standing for a blank and k > 0 for the issue id k.
RECURSIVE StripLeft(_)
StripLeft(t) == IF t # <<>> /\ Head(t) = 0 THEN StripLeft(Tail(t)) ELSE t

RECURSIVE StripRight(_)
StripRight(t) ==
    IF t # <<>> /\ t[Len(t)] = 0 THEN StripRight(SubSeq(t, 1, Len(t) - 1)) ELSE t

strip(t) == StripRight(StripLeft(t))

\* Mutant: the ids come out last first.
ParseIds_Reversed(tokens) ==
    LET kept == SelectSeq(tokens, LAMBDA t : strip(t) # <<>>)
    IN [k \in 1..Len(kept) |-> strip(kept[Len(kept) + 1 - k])[1]]

\* Line 1405: ids = [i.strip() for i in issue_ids.split(",") if i.strip()].
ParseIds(tokens) ==
    LET kept == SelectSeq(tokens, LAMBDA t : strip(t) # <<>>)
    IN [k \in 1..Len(kept) |-> strip(kept[k])[1]]

\* Mutant: a batch as large as the ceiling is turned away too.
OverCeiling_Inclusive(n, max_workers) == n >= max_workers

\* Line 1409: len(ids) > max_workers.
OverCeiling(n, max_workers) == n > max_workers

\* Mutant: every task is written down as spawned.
Outcome_AlwaysSpawned(issue_id, worker_result) ==
    [issue_id |-> issue_id, status |-> "spawned", pane_id |-> 0,
     placement |-> "new_window"]

\* Lines 1430-1440: the entry of one task in the results.
Outcome(issue_id, worker_result) ==
    IF "error" \in DOMAIN worker_result
    THEN [issue_id |-> issue_id, status |-> "failed", error |-> worker_result.error]
    ELSE [issue_id |-> issue_id, status |-> "spawned",
          pane_id |-> worker_result.pane_id,
          placement |-> worker_result.placement.action]

IdleWave ==
    [pc |-> "idle", tokens |-> <<>>, session |-> None, inject_context |-> FALSE,
     ids |-> <<>>, next |-> 1, workers |-> <<>>, spawned |-> 0, failed |-> 0,
     faulted |-> {}, result |-> [none |-> TRUE]]

\* Lines 1402-1419: smart_spawn_wave up to its loop.
WaveStart(tokens, session, inject_context) ==
    /\ wave.pc = "idle"
    /\ LET config == load_config(Store).doc
           max_workers == config.max_concurrent_workers
           ids == ParseIds(tokens)
           called == [IdleWave EXCEPT !.tokens = tokens, !.session = session,
                                      !.inject_context = inject_context,
                                      !.ids = ids]
       IN wave' =
            IF ids = <<>>
            THEN [called EXCEPT !.pc = "returned",
                                !.result = [error |-> "No issue IDs provided"]]
            ELSE IF OverCeiling(Len(ids), max_workers)
            THEN [called EXCEPT !.pc = "returned",
                    !.result = [error |-> "Requested more workers than max_concurrent_workers",
                                requested |-> Len(ids), max |-> max_workers]]
            ELSE [called EXCEPT !.pc = "running"]
    /\ UNCHANGED <<cfgVars, lifeVars, ret, paneVars, audioVars, typed, spawnVars, signalVars, queryVars, raceVars>>

\* Lines 1421-1447: one turn of the loop, and the return after the last one.
\* An exception of smart_spawn leaves smart_spawn_wave as it is raised.
\* tmux makes no pane beyond MaxPanes.
WaveSpawn(env) ==
    /\ wave.pc = "running"
    /\ env.create # "fail" => Len(panes) < MaxPanes
    /\ \E r \in {smart_spawn(wave.ids[wave.next], wave.session, None,
                             wave.inject_context, env)} :
       \E failed \in {"error" \in DOMAIN r.val} :
       \E looped \in {IF r.raised THEN wave ELSE
                      [wave EXCEPT
                         !.workers = Append(@, Outcome(wave.ids[wave.next], r.val)),
                         !.spawned = IF failed THEN @ ELSE @ + 1,
                         !.failed = IF failed THEN @ + 1 ELSE @,
                         !.next = @ + 1]} :
          /\ panes' = r.panes
          /\ worktrees' = r.worktrees
          /\ typed' = r.typed
          /\ wave' =
               IF r.raised
               THEN [wave EXCEPT !.pc = "raised", !.faulted = @ \cup {wave.next},
                                 !.result = r.val]
               ELSE IF looped.next > Len(wave.ids)
               THEN [looped EXCEPT !.pc = "returned",
                       !.result = [total |-> Len(wave.ids),
                                   spawned |-> looped.spawned,
                                   failed |-> looped.failed,
                                   workers |-> looped.workers]]
               ELSE looped
    /\ UNCHANGED <<cfgVars, sessions, stateFiles, ret, placement, audioVars, spawnVars, signalVars, queryVars, raceVars>>

\* The caller takes the result, or the exception, of smart_spawn_wave.
WaveCollect ==
    /\ wave.pc \in {"returned", "raised"}
    /\ wave' = IdleWave
    /\ UNCHANGED <<cfgVars, lifeVars, ret, paneVars, audioVars, typed, spawnVars, signalVars, queryVars, raceVars>>

(***************************************************************************)
(* Workers in sessions: spawn_worker, and spawn_worker_in_pane as a tool   *)
(***************************************************************************)
\* Lines 252-350. env.create is the outcome of tmux new-session (run with
\* check=False), which also fails when the session exists already. `steps`
\* are the git commands run and after them the steps that completed.
spawn_worker(issue_id, inject_context, env) ==
    LET exists == issue_id \in worktrees
        wt_failed == ~exists /\ env.fault = "worktree"
        has_session == issue_id \in sessions \/ env.create = "ok"
        context_text == IF ~inject_context THEN ""
                        ELSE IF env.bd = "ok" THEN "briefing"
                        ELSE IF env.bd = "exit" THEN ""
                        ELSE "fallback"
        plan == <<"launch", "boot wait">>
                \o (IF context_text # "" THEN send_keys("text", TRUE) ELSE <<>>)
        failing == {k \in 1..Len(plan) : ~has_session \/ plan[k] = env.fault}
        done == IF wt_failed THEN <<>>
                ELSE IF failing = {} THEN plan
                ELSE SubSeq(plan, 1, Min(failing) - 1)
        steps == [k \in 1..Len(done) |->
                     IF done[k] = "text" THEN context_text ELSE done[k]]
        raised == wt_failed \/ failing # {}
    IN [raised |-> raised,
        val |-> IF raised THEN [exception |-> "CalledProcessError"]
                ELSE [session |-> issue_id, worktree |-> issue_id,
                      branch |-> issue_id,
                      context_injected |-> context_text # ""],
        worktrees |-> IF exists \/ wt_failed THEN worktrees
                      ELSE worktrees \cup {issue_id},
        sessions |-> IF ~wt_failed /\ env.create = "ok"
                     THEN sessions \cup {issue_id} ELSE sessions,
        git |-> WorktreeCommands(exists, env.branch),
        steps |-> WorktreeCommands(exists, env.branch)
                  \o (IF wt_failed THEN <<>> ELSE <<"new-session">>) \o steps,
        keys |-> SelectSeq(steps, IsKeystroke)]

\* The keystrokes a target has received, none when it received nothing yet.
KeysOf(d, target) == IF target \in DOMAIN d THEN d[target] ELSE <<>>

\* The record of a spawn call.
Provisioned(op, issue_id, inject_context, env, r) ==
    [called |-> TRUE, op |-> op, issue_id |-> issue_id,
     inject_context |-> inject_context, env |-> env, raised |-> r.raised,
     val |-> r.val, keys |-> r.keys, git |-> r.git, steps |-> r.steps]

SpawnWorker(issue_id, inject_context, env) ==
    /\ \E r \in {spawn_worker(issue_id, inject_context, env)} :
          /\ worktrees' = r.worktrees
          /\ sessions' = r.sessions
          /\ sessionKeys' = IF r.keys = <<>> THEN sessionKeys
                            ELSE DictSet(sessionKeys, issue_id,
                                         KeysOf(sessionKeys, issue_id) \o r.keys)
          /\ provision' = Provisioned("spawn_worker", issue_id, inject_context, env, r)
    /\ UNCHANGED <<cfgVars, stateFiles, ret, paneVars, audioVars, waveVars, signalVars, queryVars, raceVars>>

\* spawn_worker_in_pane called on its own: tmux send-keys to a pane that
\* does not exist exits non-zero.
SpawnWorkerInPane(pane_id, issue_id, inject_context, env) ==
    /\ \E there \in {\E k \in 1..Len(panes) : panes[k].pane_id = pane_id} :
       \E r \in {spawn_worker_in_pane(pane_id, issue_id, inject_context,
                    IF there \/ env.fault = "worktree" THEN env
                    ELSE [env EXCEPT !.fault = "cd"])} :
          /\ worktrees' = r.worktrees
          /\ typed' = IF r.keys = <<>> THEN typed
                      ELSE DictSet(typed, pane_id, KeysOf(typed, pane_id) \o r.keys)
          /\ provision' = Provisioned("spawn_worker_in_pane", issue_id,
                                      inject_context, env, r)
    /\ UNCHANGED <<cfgVars, sessions, stateFiles, ret, paneVars, audioVars, wave,
                   sessionKeys, signalVars, queryVars, raceVars>>

\* Lines 209-248, the send_keys tool. Both tmux commands run with check=True:
\* a session that is not there, or a command that fails (fault), raises
\* CalledProcessError after what was delivered before it.
SendKeys(session, keys, submit, fault) ==
    /\ Len(KeysOf(sessionKeys, session)) < MaxTyped
    /\ \E plan \in {send_keys("text", submit)} :
       \E failing \in {{k \in 1..Len(plan) :
                           session \notin sessions \/ plan[k] = fault}} :
       \E done \in {IF failing = {} THEN plan
                    ELSE SubSeq(plan, 1, Min(failing) - 1)} :
       \E sent \in {SelectSeq([k \in 1..Len(done) |->
                                  IF done[k] = "text" THEN keys ELSE done[k]],
                               IsKeystroke)} :
          /\ sessionKeys' = IF sent = <<>> THEN sessionKeys
                            ELSE DictSet(sessionKeys, session,
                                         KeysOf(sessionKeys, session) \o sent)
          /\ ret' = [op |-> "send_keys", arg |-> session, keys |-> keys,
                     submit |-> submit, fault |-> fault, sent |-> sent,
                     raised |-> failing # {},
                     val |-> IF failing # {}
                             THEN [exception |-> "CalledProcessError"]
                             ELSE [chars |-> keys, submitted |-> submit],
                     saved |-> FALSE]
    /\ UNCHANGED <<cfgVars, lifeVars, paneVars, audioVars, waveVars, provision, signalVars, queryVars, raceVars>>

(***************************************************************************)
(* Synchronization: wait_for_signal, send_signal                           *)
(***************************************************************************)
\* wait_for_signal calls in flight, and the channels they wait on.
Waiters == {"w1", "w2"}

Channels == {"done-1", "done-2"}

\* proc is the `tmux wait-for` child: "none", "running", "exited" (exit 0),
\* "failed" (non-zero exit) or "killed". signalled tells whether a token for
\* the channel arrived while the child was running.
NoWait ==
    [pc |-> "idle", channel |-> "", proc |-> "none", signalled |-> FALSE,
     result |-> [status |-> "none"]]

\* Lines 1581-1587 and 1602-1607: the child is started; exec_ok is false
\* when create_subprocess_exec raises (tmux not installed).
WaitForSignal(w, channel, exec_ok) ==
    /\ waits[w].pc = "idle"
    /\ waits' = [waits EXCEPT ![w] =
          IF exec_ok
          THEN [NoWait EXCEPT !.pc = "waiting", !.channel = channel,
                              !.proc = "running"]
          ELSE [NoWait EXCEPT !.pc = "done", !.channel = channel,
                    !.result = [channel |-> channel, status |-> "error"]]]
    /\ UNCHANGED <<cfgVars, lifeVars, ret, paneVars, audioVars, waveVars, spawnVars, queryVars, raceVars>>

\* Lines 1587-1594: proc.wait() comes back because the child has ended; its
\* return code is not looked at.
WaitEnds(w) ==
    /\ waits[w].pc = "waiting"
    /\ waits[w].proc \in {"exited", "failed"}
    /\ waits' = [waits EXCEPT ![w].pc = "done",
                   ![w].result = [channel |-> waits[w].channel, status |-> "received"]]
    /\ UNCHANGED <<cfgVars, lifeVars, ret, paneVars, audioVars, waveVars, spawnVars, queryVars, raceVars>>

\* Mutant: the child is left alone when the wait times out.
ProcAfterTimeout_Abandoned(proc) == proc

\* Line 1596: proc.kill().
ProcAfterTimeout(proc) == "killed"

\* Lines 1595-1601: timeout_s elapses while the child is still running.
WaitTimesOut(w) ==
    /\ waits[w].pc = "waiting"
    /\ waits[w].proc = "running"
    /\ waits' = [waits EXCEPT ![w].pc = "done",
                   ![w].proc = ProcAfterTimeout(waits[w].proc),
                   ![w].result = [channel |-> waits[w].channel, status |-> "timeout"]]
    /\ UNCHANGED <<cfgVars, lifeVars, ret, paneVars, audioVars, waveVars, spawnVars, queryVars, raceVars>>

\* The caller takes the result.
WaitCollect(w) ==
    /\ waits[w].pc = "done"
    /\ waits[w].proc # "running"
    /\ waits' = [waits EXCEPT ![w] = NoWait]
    /\ UNCHANGED <<cfgVars, lifeVars, ret, paneVars, audioVars, waveVars, spawnVars, queryVars, raceVars>>

\* Lines 1611-1631: tmux wait-for -S wakes every child waiting on the
\* channel; tmux_ok is its exit status.
SendSignal(channel, tmux_ok) ==
    /\ waits' = [w \in Waiters |->
          IF tmux_ok /\ waits[w].proc = "running" /\ waits[w].channel = channel
          THEN [waits[w] EXCEPT !.proc = "exited", !.signalled = TRUE]
          ELSE waits[w]]
    /\ ret' = [op |-> "send_signal", arg |-> 0, raised |-> FALSE,
               val |-> [text |-> IF tmux_ok THEN "Signal sent"
                                 ELSE "Failed to send signal"],
               saved |-> FALSE]
    /\ UNCHANGED <<cfgVars, lifeVars, paneVars, audioVars, waveVars, spawnVars, queryVars, raceVars>>

\* The child ends without a token: the tmux server goes away, or the child
\* is killed from outside.
EnvWaitProcFails(w) ==
    /\ waits[w].proc = "running"
    /\ waits' = [waits EXCEPT ![w].proc = "failed"]
    /\ UNCHANGED <<cfgVars, lifeVars, ret, paneVars, audioVars, waveVars, spawnVars, queryVars, raceVars>>

(***************************************************************************)
(* Queries: list_panes, list_workers, get_worker_status                    *)
(***************************************************************************)
\* The sessions in the order tmux list-sessions prints them.
RECURSIVE InOrder(_)
InOrder(S) == IF S = {} THEN <<>> ELSE <<Min(S)>> \o InOrder(S \ {Min(S)})

\* Lines 557-565 and 591-600: the content of a status file, None when the
\* file is absent or cannot be read as JSON.
ReadState(session, readable) ==
    IF session \in stateFiles /\ readable THEN Some([status |-> "busy"]) ELSE None

\* Lines 533-575. tmux_ok is the exit status of tmux list-sessions.
list_workers(tmux_ok, readable) ==
    IF ~tmux_ok THEN <<>>
    ELSE [k \in 1..Cardinality(sessions) |->
            [session |-> InOrder(sessions)[k],
             claude_status |->
                IF IsNone(ReadState(InOrder(sessions)[k], readable)) THEN None
                ELSE Some(ReadState(InOrder(sessions)[k], readable)[1].status)]]

\* Lines 579-600.
get_worker_status(session, readable) == ReadState(session, readable)

\* The record of a query: failed tells whether the tool it ran, or the read
\* of the file it opened, failed.
Queried(op, failed, val) == [called |-> TRUE, op |-> op, failed |-> failed, val |-> val]

ListPanes(tmux_ok) ==
    /\ query' = Queried("list_panes", ~tmux_ok, list_panes(tmux_ok))
    /\ UNCHANGED <<cfgVars, lifeVars, ret, paneVars, audioVars, waveVars, spawnVars,
                   signalVars, raceVars>>

ListWorkers(tmux_ok, readable) ==
    /\ query' = Queried("list_workers", ~tmux_ok, list_workers(tmux_ok, readable))
    /\ UNCHANGED <<cfgVars, lifeVars, ret, paneVars, audioVars, waveVars, spawnVars,
                   signalVars, raceVars>>

GetWorkerStatus(session, readable) ==
    /\ query' = Queried("get_worker_status", session \in stateFiles /\ ~readable,
                        get_worker_status(session, readable))
    /\ UNCHANGED <<cfgVars, lifeVars, ret, paneVars, audioVars, waveVars, spawnVars,
                   signalVars, raceVars>>

\* A Claude hook writes the status file of a session.
EnvWriteState(session) ==
    /\ session \notin stateFiles
    /\ stateFiles' = stateFiles \cup {session}
    /\ UNCHANGED <<cfgVars, sessions, worktrees, ret, paneVars, audioVars, waveVars,
                   spawnVars, signalVars, queryVars, raceVars>>

(***************************************************************************)
(* Peer controllers: get_worker_voice in two other server processes       *)
(***************************************************************************)
\* Two more conductor processes work on the same config.json. Each has its
\* own DEFAULT_CONFIG object; the file is all they share. get_worker_voice
\* reads the file in load_config (line 99) and writes it in save_config
\* (lines 122, 130); nothing holds the file in between.
Procs == {"p1", "p2"}

NoResult == [raised |-> FALSE, val |-> [none |-> TRUE], saved |-> FALSE]

IdleAlloc ==
    [pc |-> "idle", worker |-> 0, seen |-> NoFile, def |-> CompiledDefaults,
     result |-> NoResult]

\* Line 99: the process reads the file.
AllocLoad(p, worker_id) ==
    /\ alloc[p].pc = "idle"
    /\ alloc' = [alloc EXCEPT ![p] = [@ EXCEPT !.pc = "loaded", !.worker = worker_id,
                                               !.seen = configFile]]
    /\ UNCHANGED <<cfgVars, lifeVars, ret, paneVars, audioVars, waveVars, spawnVars,
                   signalVars, queryVars>>

\* Mutant: the file is read again at the moment it is written.
AllocFinish_Rereads(p) ==
    /\ alloc[p].pc = "loaded"
    /\ \E r \in {get_worker_voice([file |-> configFile, def |-> alloc[p].def],
                                  alloc[p].worker)} :
          /\ configFile' = IF r.saved THEN r.st.file ELSE configFile
          /\ alloc' = [alloc EXCEPT ![p] = [@ EXCEPT !.pc = "done", !.def = r.st.def,
                           !.result = [raised |-> r.raised, val |-> r.val,
                                       saved |-> r.saved]]]
    /\ overfull' = OverfullAfter([file |-> configFile', def |-> defaults])
    /\ UNCHANGED <<defaults, lifeVars, ret, paneVars, audioVars, waveVars, spawnVars,
                   signalVars, queryVars>>

\* Lines 100-131 on the document read at line 99; save_config overwrites the
\* file with that document and the new assignment.
AllocFinish(p) ==
    /\ alloc[p].pc = "loaded"
    /\ \E r \in {get_worker_voice([file |-> alloc[p].seen, def |-> alloc[p].def],
                                  alloc[p].worker)} :
          /\ configFile' = IF r.saved THEN r.st.file ELSE configFile
          /\ alloc' = [alloc EXCEPT ![p] = [@ EXCEPT !.pc = "done", !.def = r.st.def,
                           !.result = [raised |-> r.raised, val |-> r.val,
                                       saved |-> r.saved]]]
    /\ overfull' = OverfullAfter([file |-> configFile', def |-> defaults])
    /\ UNCHANGED <<defaults, lifeVars, ret, paneVars, audioVars, waveVars, spawnVars,
                   signalVars, queryVars>>

\* The caller takes the voice.
AllocCollect(p) ==
    /\ alloc[p].pc = "done"
    /\ alloc' = [alloc EXCEPT ![p] = [@ EXCEPT !.pc = "idle", !.worker = 0,
                                               !.seen = NoFile, !.result = NoResult]]
    /\ UNCHANGED <<cfgVars, lifeVars, ret, paneVars, audioVars, waveVars, spawnVars,
                   signalVars, queryVars>>

(***************************************************************************)
(* Specification of the configuration store and the voice pool             *)
(***************************************************************************)
Init ==
    /\ configFile = NoFile
    /\ defaults = CompiledDefaults
    /\ sessions = {}
    /\ stateFiles = {}
    /\ worktrees = {}
    /\ overfull = FALSE
    /\ ret = EnvCalled("init")
    /\ panes = <<>>
    /\ placement = [called |-> FALSE]
    /\ lock = "free"
    /\ speakers = [c \in Callers |-> Idle]
    /\ streams = {}
    /\ audioCache = {}
    /\ wave = IdleWave
    /\ typed = EmptyDict
    /\ sessionKeys = EmptyDict
    /\ provision = [called |-> FALSE]
    /\ waits = [w \in Waiters |-> NoWait]
    /\ query = [called |-> FALSE]
    /\ alloc = [p \in Procs |-> IdleAlloc]

\* The voice pool under allocation, release, kill and reset, with
\* randomization switched on and off and the default voice moved into the pool.
VoiceSettings == {<<Some(VOICE_POOL[1]), Some(FALSE)>>, <<None, Some(TRUE)>>}

NextVoice ==
    \/ \E w \in WorkerIds : GetWorkerVoice(w)
    \/ \E w \in WorkerIds : ReleaseWorkerVoice(w)
    \/ \E w \in WorkerIds : KillWorker(w, FALSE, None, TRUE)
    \/ \E p \in VoiceSettings :
          SetConfig(None, None, p[1], None, None, p[2], None, None)
    \/ ResetVoiceAssignments

SpecVoice == Init /\ [][NextVoice]_vars

\* The configuration store under every tool that loads or saves it, with the
\* file removed, corrupted or rewritten by hand in between.
CfgWorkerIds == {1}

NextConfig ==
    \/ \E w \in CfgWorkerIds : GetWorkerVoice(w)
    \/ \E w \in CfgWorkerIds : ReleaseWorkerVoice(w)
    \/ \E m \in {None, Some(2)}, v \in {None, Some(VOICE_POOL[1])},
          f \in {None, Some(FALSE), Some(TRUE)} :
          SetConfig(m, None, v, None, None, f, None, None)
    \/ ResetVoiceAssignments
    \/ GetConfig
    \/ EnvRemoveFile
    \/ EnvCorruptFile
    \/ \E doc \in ExternalDocs : EnvWriteFile(doc)

SpecConfig == Init /\ [][NextConfig]_vars

\* Placement decisions over small pane sizes and minimum sizes.
PaneSizes == {<<2, 4>>, <<4, 2>>, <<4, 4>>, <<3, 2>>, <<3, 4>>}

MinWidths == {2}

MinHeights == {2, 3}

NextSplit ==
    \/ \E sz \in PaneSizes : EnvOpenPane(sz[1], sz[2])
    \/ \E ok \in BOOLEAN, mw \in MinWidths, mh \in MinHeights,
          t \in {None} \cup {Some(i) : i \in 1..MaxPanes} :
          FindBestSplit(ok, mw, mh, t)

SpecSplit == Init /\ [][NextSplit]_vars

\* speak callers contending for the audio lock with each other and the hook.
SpeakModes == {<<FALSE, TRUE>>, <<TRUE, FALSE>>, <<FALSE, FALSE>>}

NextSpeak ==
    \/ \E c \in Callers, w \in {None}, m \in SpeakModes,
          tts \in {"ok", "tts_failed", "tts_missing"} :
          SpeakCall(c, "done", None, None, w, m[1], m[2], tts)
    \/ \E c \in Callers : SpeakTryLock(c)
    \/ \E c \in Callers, p \in {"none", "mpv"} : SpeakPlay(c, p)
    \/ \E c \in Callers, ok \in BOOLEAN : SpeakPlayerExit(c, ok)
    \/ \E c \in Callers : SpeakReturn(c)
    \/ \E c \in Callers : EnvStreamEnds(c)
    \/ EnvHookLock
    \/ EnvHookUnlock

SpecSpeak == Init /\ [][NextSpeak]_vars

\* asyncio.sleep(0.1) returns and the caller's next attempt is made.
SpecSpeakFair == SpecSpeak /\ \A c \in Callers : WF_vars(SpeakTryLock(c))

\* Batches of the batch spawner: issue_ids split at the commas.
WaveBatches ==
    { << <<1>> >>,
      << <<1>>, <<0>>, <<2, 0>> >>,
      << <<1>>, <<2>>, <<3>> >>,
      << <<>>, <<0>> >>,
      << <<1>>, <<2>>, <<3>>, <<1>>, <<2>> >> }

SpawnEnvs ==
    { AllGood,
      [AllGood EXCEPT !.session_ok = FALSE],
      [AllGood EXCEPT !.create = "fail"],
      [AllGood EXCEPT !.fault = "worktree"],
      [AllGood EXCEPT !.fault = "launch"] }

WaveCalls == {<<None, TRUE>>}

NextWave ==
    \/ panes = <<>> /\ EnvOpenPane(200, 50)
    \/ \E m \in {Some(1), Some(2)} :
          SetConfig(m, None, None, None, None, None, None, None)
    \/ \E t \in WaveBatches, c \in WaveCalls : WaveStart(t, c[1], c[2])
    \/ \E env \in SpawnEnvs : WaveSpawn(env)
    \/ WaveCollect

SpecWave == Init /\ [][NextWave]_vars

\* Workers spawned one at a time, in sessions and in panes, and killed.
ProvisionEnvs ==
    { AllGood,
      [AllGood EXCEPT !.bd = "exit"],
      [AllGood EXCEPT !.bd = "raise"],
      [AllGood EXCEPT !.fault = "worktree"],
      [AllGood EXCEPT !.branch = TRUE],
      [AllGood EXCEPT !.fault = "enter", !.bd = "json"] }

SpawnIds == {1, 2}

KillCalls == {<<FALSE, None, TRUE>>, <<TRUE, Some("project"), TRUE>>,
              <<TRUE, Some("project"), FALSE>>, <<TRUE, None, TRUE>>}

NextSpawn ==
    \/ panes = <<>> /\ EnvOpenPane(200, 50)
    \/ \E i \in SpawnIds, c \in BOOLEAN, env \in ProvisionEnvs :
          i \notin sessions /\ SpawnWorker(i, c, env)
    \/ \E c \in BOOLEAN, env \in ProvisionEnvs :
          1 \notin DOMAIN typed /\ SpawnWorkerInPane(1, 1, c, env)
    \/ \E i \in SpawnIds, k \in KillCalls : KillWorker(i, k[1], k[2], k[3])

SpecSpawn == Init /\ [][NextSpawn]_vars

\* Keystrokes to sessions and panes: workers spawned, and send_keys calls.
KeyEnvs ==
    { AllGood,
      [AllGood EXCEPT !.bd = "raise"],
      [AllGood EXCEPT !.create = "fail"],
      [AllGood EXCEPT !.fault = "launch"],
      [AllGood EXCEPT !.fault = "text"],
      [AllGood EXCEPT !.fault = "enter"] }

NextKeys ==
    \/ panes = <<>> /\ EnvOpenPane(200, 50)
    \/ \E c \in BOOLEAN, env \in KeyEnvs :
          1 \notin sessions /\ SpawnWorker(1, c, env)
    \/ \E c \in BOOLEAN, env \in KeyEnvs :
          1 \notin DOMAIN typed /\ SpawnWorkerInPane(1, 1, c, env)
    \/ \E s \in SpawnIds, submit \in BOOLEAN, fault \in {"none", "text", "enter"} :
          SendKeys(s, "hello", submit, fault)

SpecKeys == Init /\ [][NextKeys]_vars

\* Waiters and signallers on the wait-for channels.
NextSignal ==
    \/ \E w \in Waiters, ch \in Channels, ok \in BOOLEAN : WaitForSignal(w, ch, ok)
    \/ \E w \in Waiters : WaitEnds(w)
    \/ \E w \in Waiters : WaitTimesOut(w)
    \/ \E w \in Waiters : WaitCollect(w)
    \/ \E ch \in Channels, ok \in BOOLEAN : SendSignal(ch, ok)
    \/ \E w \in Waiters : EnvWaitProcFails(w)

SpecSignal == Init /\ [][NextSignal]_vars

\* Queries on sessions and panes that come and go.
NextQuery ==
    \/ EnvOpenPane(200, 50)
    \/ \E i \in SpawnIds : i \notin sessions /\ SpawnWorker(i, FALSE, AllGood)
    \/ \E i \in SpawnIds : KillWorker(i, FALSE, None, TRUE)
    \/ \E i \in SpawnIds : EnvWriteState(i)
    \/ \E ok \in BOOLEAN : ListPanes(ok)
    \/ \E ok, readable \in BOOLEAN : ListWorkers(ok, readable)
    \/ \E i \in SpawnIds, readable \in BOOLEAN : GetWorkerStatus(i, readable)

SpecQuery == Init /\ [][NextQuery]_vars

\* Workers killed, spawned or not, with what is left of them around: the
\* first worker is spawned, the other only ever has a status file and a voice.
NextKill ==
    \/ 1 \notin sessions /\ SpawnWorker(1, FALSE, AllGood)
    \/ \E i \in SpawnIds, k \in KillCalls : KillWorker(i, k[1], k[2], k[3])
    \/ \E i \in SpawnIds : EnvWriteState(i)
    \/ \E i \in SpawnIds : GetWorkerVoice(i)

SpecKill == Init /\ [][NextKill]_vars

\* Grids asked for in a window of one pane, in layouts well and ill formed.
Layouts ==
    { <<"1", "x", "1">>, <<"2", "x", "1">>, <<"1", "x", "2">>, <<"2", "x", "2">>,
      <<"3", "X", "2">>, <<" ", "2", "x", "2">>, <<"4", "x", "4">>,
      <<"-", "1", "x", "-", "1">>, <<"-", "2", "x", "-", "2">>,
      <<"-", "2", "x", "2">>, <<"0", "x", "2">>, <<"5", "x", "4">>,
      <<"2">>, <<"x">>, <<>>, <<"2", "x", "2", "x", "2">>, <<"a", "x", "b">> }

GridWindows == {<<200, 50>>, <<80, 24>>}

NextGrid ==
    \/ \E sz \in GridWindows : panes = <<>> /\ EnvOpenPane(sz[1], sz[2])
    \/ \E layout \in Layouts, tmux_ok, split_ok \in BOOLEAN :
          CreateGrid(layout, tmux_ok, split_ok)
    \/ EnvCloseWindow

SpecGrid == Init /\ [][NextGrid]_vars

\* Two peer controllers allocating voices while the user clears the
\* assignments.
RaceWorkers == {1, 2}

NextRace ==
    \/ \E p \in Procs, w \in RaceWorkers : AllocLoad(p, w)
    \/ \E p \in Procs : AllocFinish(p)
    \/ \E p \in Procs : AllocCollect(p)
    \/ ResetVoiceAssignments

SpecRace == Init /\ [][NextRace]_vars

(***************************************************************************)
(* Claims: voice pool                                                      *)
(***************************************************************************)
Assignments == AssignmentsOf(Store)

Injective(f) == \A a, b \in DOMAIN f : a # b => f[a] # f[b]

PoolVoices == Range(VOICE_POOL)

\* Randomization is on in the configuration a handler would load now.
RandomOn ==
    LET voice == load_config(Store).doc.voice
    IN "random_per_worker" \in DOMAIN voice /\ voice.random_per_worker

\* C3 as stated: whenever at most pool-size workers hold an assignment, no
\* two of them hold the same voice.
C3_UniqueWhileWithinPool ==
    Cardinality(DOMAIN Assignments) <= Len(VOICE_POOL) => Injective(Assignments)

\* C3 amended: as long as the number of workers holding an assignment has
\* never exceeded the pool size since the map was empty, no two workers hold
\* the same voice.
C3_UniqueUntilOversubscribed == ~overfull => Injective(Assignments)

\* An allocation has just filled the pool, every voice held by one worker.
C3_Witness ==
    /\ ret.op = "get_worker_voice" /\ ret.saved
    /\ ~overfull
    /\ Cardinality(DOMAIN Assignments) = Len(VOICE_POOL)
    /\ Range(Assignments) = PoolVoices

\* C4 as stated: a call of get_worker_voice for a worker without an
\* assignment, made while some pool voice is unassigned, does not return a
\* voice that another worker holds.
C4_NeverReturnsAssignedVoice ==
    [][\A w \in WorkerIds :
          ( /\ ret'.op = "get_worker_voice" /\ ret'.arg = w /\ ~ret'.raised
            /\ w \notin DOMAIN Assignments
            /\ PoolVoices \ Range(Assignments) # {} )
          => ret'.val.voice \notin Range(Assignments)]_vars

\* C4 amended: the same, for calls made while per-worker randomization is
\* enabled.
C4_NeverAssignsAssignedVoice ==
    [][\A w \in WorkerIds :
          ( /\ ret'.op = "get_worker_voice" /\ ret'.arg = w /\ ~ret'.raised
            /\ RandomOn
            /\ w \notin DOMAIN Assignments
            /\ PoolVoices \ Range(Assignments) # {} )
          => ret'.val.voice \notin Range(Assignments)]_vars

\* An allocation has just given a worker a voice while another worker holds
\* a different one.
C4_Witness ==
    /\ ret.op = "get_worker_voice" /\ ret.saved /\ RandomOn
    /\ Assignments[ret.arg] = ret.val.voice
    /\ Cardinality(DOMAIN Assignments) >= 2
    /\ \A x \in (DOMAIN Assignments) \ {ret.arg} : Assignments[x] # ret.val.voice

\* C5: in every reachable state and for every worker, a call of
\* get_worker_voice followed at once by a second call for the same worker
\* returns the same voice, and the second call saves nothing and leaves the
\* file (assignment map, cursor) and the default objects as the first left them.
C5_AllocateIdempotent ==
    \A w \in WorkerIds :
        LET first == get_worker_voice(Store, w)
            second == get_worker_voice(first.st, w)
        IN /\ second.raised = first.raised
           /\ second.val = first.val
           /\ ~second.saved
           /\ second.st = first.st

\* A first call has just assigned a voice out of an exhausted pool, and a
\* second call for that worker returns it again.
C5_Witness ==
    /\ ret.op = "get_worker_voice" /\ ret.saved /\ overfull
    /\ get_worker_voice(Store, ret.arg).val = ret.val
    /\ ~get_worker_voice(Store, ret.arg).saved

(***************************************************************************)
(* Claims: configuration store                                             *)
(***************************************************************************)
\* C6: whenever the file is missing or malformed, load_config returns the
\* compiled-in DEFAULT_CONFIG, whatever calls came before.
C6_MissingFileLoadsCompiledDefaults ==
    configFile.status \in {"missing", "malformed"}
        => load_config(Store).doc = DEFAULT_CONFIG(CompiledDefaults)

(***************************************************************************)
(* Claims: placement                                                       *)
(***************************************************************************)
\* The panes of the last call that are wide enough for two and high enough.
WideEnough ==
    {i \in 1..Len(placement.seen) :
        /\ placement.seen[i].width >= 2 * placement.min_w
        /\ placement.seen[i].height >= placement.min_h}

\* Among them the one of largest area, the first in input order among equals.
LargestWideEnough ==
    CHOOSE i \in WideEnough :
        \A j \in WideEnough :
            \/ Area(placement.seen[j]) < Area(placement.seen[i])
            \/ Area(placement.seen[j]) = Area(placement.seen[i]) /\ i <= j

\* A pane that goes before pane i in area order (larger, or equal and
\* earlier in the list) and passes the vertical test.
VerticalFitBefore(i) ==
    \E j \in 1..Len(placement.seen) :
        /\ \/ Area(placement.seen[j]) > Area(placement.seen[i])
           \/ Area(placement.seen[j]) = Area(placement.seen[i]) /\ j < i
        /\ FitsVertical(placement.seen[j], placement.min_w, placement.min_h)

SplitsLargestWideEnough ==
    /\ placement.result.action = "split_h"
    /\ placement.result.target_pane = Some(placement.seen[LargestWideEnough].pane_id)

\* C2 as stated: with no explicit target, whenever some pane has
\* width >= 2*min_w and height >= min_h, the decision is split_h of the
\* largest such pane (first in input order among equal areas).
C2_SplitsLargestWideEnough ==
    (placement.called /\ IsNone(placement.target_pane) /\ WideEnough # {})
        => SplitsLargestWideEnough

\* C2 amended: the same, provided no pane that goes before that pane in
\* area order passes the vertical test.
C2_SplitsLargestWideEnoughUnlessVerticalFirst ==
    ( /\ placement.called /\ IsNone(placement.target_pane) /\ WideEnough # {}
      /\ ~VerticalFitBefore(LargestWideEnough) )
        => SplitsLargestWideEnough

\* The decision went to a wide-enough pane that is not the first of the list,
\* past a larger or equal pane that fits neither way and an equal one later.
C2_Witness ==
    /\ placement.called /\ IsNone(placement.target_pane) /\ WideEnough # {}
    /\ ~VerticalFitBefore(LargestWideEnough)
    /\ LargestWideEnough > 1
    /\ Cardinality(WideEnough) >= 2
    /\ placement.result.action = "split_h"

(***************************************************************************)
(* Claims: the audio lock                                                  *)
(***************************************************************************)
\* C7: a best-effort (non-priority) speak that finds the lock held makes
\* exactly one non-blocking attempt and returns the busy result without
\* waiting or retrying; it starts no player and leaves the lock with its
\* holder.
C7_BestEffortOneAttempt ==
    [][\A c \in Callers :
          ( /\ speakers[c].pc = "acquire"
            /\ ~speakers[c].priority
            /\ lock # "free"
            /\ speakers'[c] # speakers[c] )
          => /\ speakers'[c].pc = "done"
             /\ speakers'[c].result = "busy"
             /\ speakers'[c].attempts = 1
             /\ ~speakers'[c].held
             /\ streams' = streams
             /\ lock' = lock]_vars

C7_Witness ==
    \E c, d \in Callers :
        /\ c # d
        /\ speakers[c].pc = "done"
        /\ ~speakers[c].priority
        /\ speakers[c].result = "busy"
        /\ speakers[d].priority
        /\ lock = d

\* C8: a priority speak makes at most LockRetries (50) attempts at the lock
\* and then reaches playback whether or not it got the lock, also when the
\* lock is never released; no caller stays in lock admission for ever.
C8_PriorityReachesPlayback ==
    /\ [](\A c \in Callers :
            /\ speakers[c].attempts <= LockRetries
            /\ speakers[c].pc = "acquire" => speakers[c].attempts < LockRetries)
    /\ \A c \in Callers :
          (speakers[c].pc = "acquire")
            ~> \/ speakers[c].pc = "play"
               \/ ~speakers[c].priority /\ speakers[c].result = "busy"

C8_Witness ==
    \E c \in Callers :
        /\ speakers[c].priority
        /\ speakers[c].pc = "play"
        /\ speakers[c].attempts = LockRetries
        /\ ~speakers[c].held
        /\ lock = "hook"

\* C9: whichever way speak ends after it acquired the lock (audio played,
\* no player installed, or the player failing with an exception), the caller
\* does not hold the lock once speak has finished.
C9_LockReleasedOnEveryExit ==
    \A c \in Callers : speakers[c].pc \in {"idle", "done"} => lock # c

C9_Witness ==
    \E c \in Callers :
        /\ speakers[c].pc = "done"
        /\ speakers[c].held
        /\ speakers[c].result = "raised"
        /\ lock # c

(***************************************************************************)
(* Claims: the batch spawner                                               *)
(***************************************************************************)
\* C1: when the provisioning of one task of a batch fails at the subprocess
\* level (git worktree or tmux send-keys exits non-zero), the batch is not
\* aborted: the task is recorded as failed and the batch goes on to the
\* later tasks and to its summary.
C1_BatchSurvivesProvisioningFailure ==
    \A i \in wave.faulted :
        /\ wave.pc \in {"running", "returned"}
        /\ i <= Len(wave.workers)
        /\ wave.workers[i].status = "failed"

\* The ids the caller asked for: the tokens that are not blank.
Requested(tokens) ==
    Cardinality({k \in DOMAIN tokens : \E j \in DOMAIN tokens[k] : tokens[k][j] # 0})

\* C10: a batch with more ids than max_concurrent_workers is rejected up
\* front with requested = number of ids and max = the ceiling, and no pane,
\* window, worktree or worker is created; a batch of exactly the ceiling's
\* size is accepted.
C10_RejectsBatchOverCeiling ==
    [][(wave.pc = "idle" /\ wave'.pc # "idle") =>
          LET n == Requested(wave'.tokens)
              ceiling == load_config(Store).doc.max_concurrent_workers
          IN /\ n > ceiling =>
                  /\ wave'.pc = "returned"
                  /\ DOMAIN wave'.result = {"error", "requested", "max"}
                  /\ wave'.result.requested = n
                  /\ wave'.result.max = ceiling
                  /\ UNCHANGED <<panes, worktrees, sessions, typed>>
             /\ n = ceiling => wave'.pc = "running"]_vars

C10_Witness ==
    /\ wave.pc = "returned"
    /\ "requested" \in DOMAIN wave.result
    /\ wave.result.requested = wave.result.max + 1
    /\ wave.result.requested = Requested(wave.tokens)

(***************************************************************************)
(* Claims: spawning and killing workers                                    *)
(***************************************************************************)
\* C11: whenever context injection is requested for a spawn that returns,
\* the worker receives a non-empty instruction (the briefing when bd show
\* succeeds, the one-line fallback when it fails in any way) and the result
\* reports context_injected = true.
C11_InjectionAlwaysDelivers ==
    (provision.called /\ provision.inject_context /\ ~provision.raised) =>
        /\ provision.val.context_injected
        /\ \E k \in DOMAIN provision.keys :
              provision.keys[k] = IF provision.env.bd = "ok" THEN "briefing"
                                  ELSE "fallback"

(***************************************************************************)
(* Claims: synchronization                                                 *)
(***************************************************************************)
\* C12: wait_for_signal returns status received only if a token for its
\* channel was signalled while the wait was pending; a wait that ends for
\* any other reason gives timeout or error.
C12_ReceivedOnlyWhenSignalled ==
    \A w \in Waiters :
        (waits[w].pc = "done" /\ waits[w].result.status = "received")
            => waits[w].signalled

\* C13: after a wait_for_signal that returned timeout, the wait process the
\* call started is no longer pending: it was killed before the return.
C13_TimeoutKillsWaitProcess ==
    \A w \in Waiters :
        (waits[w].pc = "done" /\ waits[w].result.status = "timeout")
            => waits[w].proc = "killed"

C13_Witness ==
    \E w, v \in Waiters :
        /\ w # v
        /\ waits[w].pc = "done"
        /\ waits[w].result.status = "timeout"
        /\ waits[w].proc = "killed"
        /\ waits[v].proc = "running"
        /\ waits[v].channel = waits[w].channel

(***************************************************************************)
(* Claims: error results                                                   *)
(***************************************************************************)
\* What a query answers when it succeeds and there is nothing to report: no
\* panes, no workers, no status file.
ValidEmpty(op) == IF op = "get_worker_status" THEN None ELSE <<>>

\* C14: a failing list_panes, list_workers or get_worker_status returns a
\* result that differs from the valid empty result of the same operation.
C14_FailureDiffersFromEmpty ==
    (query.called /\ query.failed) => query.val # ValidEmpty(query.op)

\* C15: when a subprocess of spawn_worker or spawn_worker_in_pane (git
\* worktree, tmux send-keys) exits non-zero, the call returns a structured
\* error result; it never leaves by an exception.
C15_ToolFailureIsReturned ==
    (provision.called /\ provision.env.fault # "none") =>
        /\ ~provision.raised
        /\ "error" \in DOMAIN provision.val

\* C16: kill_worker on a session that does not exist returns a message that
\* says the session was not found, does not raise, and still carries out
\* the rest of the teardown: the status file is removed, the voice is
\* released and, when asked for with a project directory, the worktree is
\* removed.
C16_KillOfAbsentSessionTearsDown ==
    [][\A i \in SpawnIds, k \in KillCalls :
          (i \notin sessions /\ KillWorker(i, k[1], k[2], k[3])) =>
             /\ ~ret'.raised
             /\ ret'.val.messages[1] = "Session not found or already killed"
             /\ i \notin stateFiles'
             /\ i \notin DOMAIN load_config([file |-> configFile', def |-> defaults'])
                                    .doc.worker_voice_assignments
             /\ (k[1] /\ ~IsNone(k[2]) /\ k[3]) => i \notin worktrees']_vars

C16_Witness ==
    /\ ret.op = "kill_worker"
    /\ ~ret.raised
    /\ ret.saved
    /\ ret.val.messages = <<"Session not found or already killed",
                            "Removed state file", "Removed worktree">>
    /\ ret.arg \notin sessions \cup stateFiles \cup worktrees

\* C33: a spawn of a task whose worktree directory exists issues no branch
\* check and no worktree command and leaves the worktrees as they are; a
\* spawn of a task without one issues the branch check and then exactly one
\* worktree creation, attaching to the branch when it exists and creating
\* branch and worktree together when not, and adds no worktree but the
\* task's. So a task spawned again while its worktree stands does not
\* create it a second time.
C33_WorktreeEnsuredOnce ==
    [][\A p \in {provision'} :
          ( /\ p.called
            /\ \/ SpawnWorker(p.issue_id, p.inject_context, p.env)
               \/ SpawnWorkerInPane(1, p.issue_id, p.inject_context, p.env) ) =>
             /\ p.issue_id \in worktrees =>
                   /\ p.git = <<>>
                   /\ worktrees' = worktrees
             /\ p.issue_id \notin worktrees =>
                   /\ Len(p.git) = 2
                   /\ p.git[1] = "branch --list"
                   /\ p.git[2] = IF p.env.branch THEN "worktree add"
                                 ELSE "worktree add -b"
                   /\ worktrees' \subseteq worktrees \cup {p.issue_id}]_vars

\* A task is spawned a second time, in a pane, after its session was made
\* and typed into: the second spawn issued no git command.
C33_Witness ==
    /\ provision.called
    /\ provision.op = "spawn_worker_in_pane"
    /\ provision.issue_id \in worktrees \cap DOMAIN sessionKeys
    /\ provision.git = <<>>
    /\ ~provision.raised

\* The place of a step in the order of a spawn.
Rank(step) ==
    CASE step \in {"branch --list", "worktree add", "worktree add -b"} -> 1
      [] step \in {"new-session", "cd", "pane wait"} -> 2
      [] step = "launch" -> 3
      [] step = "boot wait" -> 4
      [] step \in {"briefing", "fallback"} -> 5
      [] step = "settle delay" -> 6
      [] step = "enter" -> 7

\* The steps of the last spawn of the given rank.
StepsOfRank(n) == {k \in DOMAIN provision.steps : Rank(provision.steps[k]) = n}

\* C34: the steps of a spawn come in the order workspace, launch of the
\* agent in the session or pane, boot wait, briefing text, settle delay,
\* Enter, each of the last five once at most; a spawn that returns has
\* launched and waited, and has sent the text exactly when there is a
\* briefing; Enter comes only after the text and the settle delay; the
\* terminal receives the keystrokes in that order. A send_keys call appends
\* to the session what it delivered: with submit=False no Enter, and with
\* submit=True an Enter only after the text.
C34_SpawnStepsInOrder ==
    /\ [](provision.called =>
            /\ \A j, k \in DOMAIN provision.steps :
                  j < k => /\ Rank(provision.steps[j]) <= Rank(provision.steps[k])
                           /\ Rank(provision.steps[k]) >= 3 =>
                                 Rank(provision.steps[j]) < Rank(provision.steps[k])
            /\ ~provision.raised =>
                  /\ StepsOfRank(3) # {} /\ StepsOfRank(4) # {}
                  /\ StepsOfRank(5) # {} <=> provision.val.context_injected
                  /\ StepsOfRank(5) # {} <=> StepsOfRank(7) # {}
            /\ StepsOfRank(7) # {} => StepsOfRank(5) # {} /\ StepsOfRank(6) # {}
            /\ provision.keys = SelectSeq(provision.steps,
                                          LAMBDA x : Rank(x) \in {3, 5, 7} \/ x = "cd"))
    /\ [][\A r \in {ret'} :
            (r.op = "send_keys" /\ SendKeys(r.arg, r.keys, r.submit, r.fault)) =>
               /\ KeysOf(sessionKeys', r.arg) = KeysOf(sessionKeys, r.arg) \o r.sent
               /\ ~r.submit => r.sent \in {<<>>, <<r.keys>>}
               /\ r.submit => r.sent \in {<<>>, <<r.keys>>, <<r.keys, "enter">>}
               /\ ~r.raised => r.sent = IF r.submit THEN <<r.keys, "enter">>
                                        ELSE <<r.keys>>]_vars

\* A session was spawned with a briefing, which was typed and submitted, and
\* a send_keys call with submit=False then left its text unsubmitted.
C34_Witness ==
    /\ provision.called /\ ~provision.raised
    /\ provision.op = "spawn_worker"
    /\ provision.steps = <<"branch --list", "worktree add -b", "new-session", "launch",
                           "boot wait", "briefing", "settle delay", "enter">>
    /\ ret.op = "send_keys" /\ ~ret.raised /\ ~ret.submit
    /\ sessionKeys[provision.issue_id] = <<"launch", "briefing", "enter", "hello">>

\* C35: a kill_worker call that returns leaves the session without status
\* file and without voice assignment, and every other worker's voice
\* assignment as it was, whether the session existed or not. It removes the
\* worktree of the session, and no other, only when cleanup was asked for, a
\* project directory was given and the worktree exists; a removal that is
\* not possible or that fails leaves the worktrees alone and ends the
\* result with a message that says so, the rest of the teardown done.
C35_KillTearsDownWhateverTheWorktree ==
    [][\A r \in {ret'}, k \in KillCalls :
          (r.op = "kill_worker" /\ ~r.raised /\ KillWorker(r.arg, k[1], k[2], k[3])) =>
          \A before \in {AssignmentsOf(Store)},
             after \in {AssignmentsOf([file |-> configFile', def |-> defaults'])} :
             /\ r.arg \notin sessions' \cup stateFiles'
             /\ r.arg \notin DOMAIN after
             /\ DOMAIN after = (DOMAIN before) \ {r.arg}
             /\ \A w \in DOMAIN after : after[w] = before[w]
             /\ worktrees' \in {worktrees, worktrees \ {r.arg}}
             /\ worktrees' # worktrees =>
                   k[1] /\ ~IsNone(k[2]) /\ r.arg \in worktrees
             /\ (k[1] /\ (IsNone(k[2]) \/ r.arg \notin worktrees \/ ~k[3])) =>
                   /\ worktrees' = worktrees
                   /\ r.val.messages[Len(r.val.messages)] \in
                         {"Warning: project_dir required for worktree cleanup",
                          "Worktree not found", "Failed to remove worktree"}]_vars

\* A live session with a status file and a voice was killed with cleanup and
\* git failed to remove its worktree: session, status file and voice are
\* gone, the worktree stands, another worker keeps its voice.
C35_Witness ==
    /\ ret.op = "kill_worker"
    /\ ~ret.raised
    /\ ret.saved
    /\ ret.val.messages = <<"Killed session", "Removed state file",
                            "Failed to remove worktree">>
    /\ ret.arg \in worktrees
    /\ ret.arg \notin sessions \cup stateFiles \cup DOMAIN AssignmentsOf(Store)
    /\ DOMAIN AssignmentsOf(Store) # {}

(***************************************************************************)
(* Claims: soundness of a placement decision                               *)
(***************************************************************************)
\* The panes of the last call that the decision names as its target.
Targeted ==
    {i \in 1..Len(placement.seen) :
        placement.result.target_pane = Some(placement.seen[i].pane_id)}

\* The panes of the last call that were examined: the target when one was
\* given, every pane when none was.
Examined ==
    {i \in 1..Len(placement.seen) :
        IsNone(placement.target_pane)
        \/ placement.seen[i].pane_id = placement.target_pane[1]}

\* C37: a decision split_h names a pane of the list whose half width and
\* whose height reach the minimums, a decision split_v a pane of the list
\* whose width and half height reach them; the target is null exactly when
\* the decision is new_window; and new_window is decided only when no pane
\* that was examined passes either test.
C37_DecisionSoundForItsPanes ==
    placement.called =>
        /\ placement.result.action \in {"split_h", "split_v", "new_window"}
        /\ placement.result.action = "split_h" =>
              \E i \in Targeted :
                 /\ placement.seen[i].width \div 2 >= placement.min_w
                 /\ placement.seen[i].height >= placement.min_h
        /\ placement.result.action = "split_v" =>
              \E i \in Targeted :
                 /\ placement.seen[i].width >= placement.min_w
                 /\ placement.seen[i].height \div 2 >= placement.min_h
        /\ IsNone(placement.result.target_pane) <=>
              placement.result.action = "new_window"
        /\ placement.result.action = "new_window" =>
              \A i \in Examined :
                 /\ ~ /\ placement.seen[i].width \div 2 >= placement.min_w
                      /\ placement.seen[i].height >= placement.min_h
                 /\ ~ /\ placement.seen[i].width >= placement.min_w
                      /\ placement.seen[i].height \div 2 >= placement.min_h

\* A target was given and cut vertically, too narrow to be cut side by side,
\* while a pane that was not examined could have been.
C37_Witness ==
    /\ placement.called
    /\ ~IsNone(placement.target_pane)
    /\ placement.result.action = "split_v"
    /\ placement.result.target_pane = placement.target_pane
    /\ \E i \in 1..Len(placement.seen) :
          /\ i \notin Examined
          /\ placement.seen[i].width \div 2 >= placement.min_w
          /\ placement.seen[i].height >= placement.min_h

(***************************************************************************)
(* Claims: grids                                                           *)
(***************************************************************************)
\* The numbers of a layout that reads COLSxROWS, None for any other layout.
GridOf(layout) ==
    IF Len(split(lower(layout), "x")) # 2 THEN None
    ELSE Only({ IF IsNone(int(parts[1])) \/ IsNone(int(parts[2])) THEN None
                ELSE Some([cols |-> int(parts[1])[1], rows |-> int(parts[2])[1]]) :
                parts \in {split(lower(layout), "x")} })

\* COLS and ROWS positive and between them 1 to 16 panes.
Acceptable(layout) ==
    \A g \in {GridOf(layout)} :
        /\ ~IsNone(g)
        /\ g[1].cols > 0 /\ g[1].rows > 0
        /\ g[1].cols * g[1].rows \in 1..16

\* C36: create_grid turns every layout away with an error, no pane split,
\* unless it reads COLSxROWS with COLS and ROWS positive and COLS*ROWS from 1
\* to 16; a result without error lists COLS*ROWS panes and counts as many.
C36_GridOnlyForPositiveLayouts ==
    [][\A r \in {ret'} :
          (r.op = "create_grid" /\ CreateGrid(r.arg, r.tmux_ok, r.split_ok)) =>
             /\ ~Acceptable(r.arg) => ("error" \in DOMAIN r.val /\ panes' = panes)
             /\ "error" \notin DOMAIN r.val =>
                   \A g \in {GridOf(r.arg)} :
                      /\ Len(r.val.panes) = g[1].cols * g[1].rows
                      /\ r.val.count = g[1].cols * g[1].rows]_vars

(***************************************************************************)
(* Claims: placement fallbacks                                             *)
(***************************************************************************)
\* No pane of the last call passes the horizontal or the vertical test.
NothingFits ==
    \A i \in 1..Len(placement.seen) :
        /\ ~FitsHorizontal(placement.seen[i], placement.min_w, placement.min_h)
        /\ ~FitsVertical(placement.seen[i], placement.min_w, placement.min_h)

\* The decision is a new window, no target, the reason citing both minimums.
NewWindowCitingMinimums ==
    /\ placement.result.action = "new_window"
    /\ IsNone(placement.result.target_pane)
    /\ {"min_w", "min_h"} \subseteq DOMAIN placement.result.reason
    /\ placement.result.reason.min_w = placement.min_w
    /\ placement.result.reason.min_h = placement.min_h

TargetListed ==
    \E i \in 1..Len(placement.seen) :
        placement.seen[i].pane_id = placement.target_pane[1]

\* C17 as stated: for every pane list in which no pane passes either test,
\* the decision is new_window with a null target and a reason that contains
\* min_w and min_h.
C17_NothingFitsCitesMinimums ==
    (placement.called /\ NothingFits) => NewWindowCitingMinimums

\* C17 amended: the same for every pane list that is not empty and, when a
\* target is given, holds the target.
C17_NothingFitsAmongCandidatesCitesMinimums ==
    ( /\ placement.called /\ NothingFits
      /\ placement.seen # <<>>
      /\ IsNone(placement.target_pane) \/ TargetListed )
        => NewWindowCitingMinimums

C17_Witness ==
    /\ placement.called
    /\ Len(placement.seen) >= 2
    /\ NothingFits
    /\ IsNone(placement.target_pane)
    /\ NewWindowCitingMinimums

\* C18: an explicit target that is not in the pane set gives new_window with
\* a null target, whatever the sizes of the panes that are there.
C18_AbsentTargetGivesNewWindow ==
    (placement.called /\ ~IsNone(placement.target_pane) /\ ~TargetListed) =>
        /\ placement.result.action = "new_window"
        /\ IsNone(placement.result.target_pane)

C18_Witness ==
    /\ placement.called
    /\ ~IsNone(placement.target_pane)
    /\ ~TargetListed
    /\ WideEnough # {}
    /\ placement.result.action = "new_window"

C20_LoadBackfillsNestedDefaults ==
    configFile.status = "ok" =>
        \A d \in {load_config(Store).doc} :
            /\ \A k \in DOMAIN DEFAULT_CONFIG(defaults) :
                  /\ k \in DOMAIN d
                  /\ k \notin DOMAIN configFile.doc => d[k] = DEFAULT_CONFIG(defaults)[k]
            /\ \A k \in {"voice", "delays"} :
                  \A kk \in DOMAIN CompiledDefaults[k] :
                      /\ kk \in DOMAIN d[k]
                      /\ (k \in DOMAIN configFile.doc /\ kk \in DOMAIN configFile.doc[k])
                            => d[k][kk] = configFile.doc[k][kk]
            /\ \A k \in (DOMAIN configFile.doc) \ {"voice", "delays"} :
                  k \in DOMAIN d /\ d[k] = configFile.doc[k]

(***************************************************************************)
(* Claims: order and summary of a batch                                    *)
(***************************************************************************)
\* The ids of a batch as the caller wrote them, left to right.
RECURSIVE InputOrder(_)
InputOrder(tokens) ==
    IF tokens = <<>> THEN <<>>
    ELSE LET named == {Head(tokens)[j] : j \in DOMAIN Head(tokens)} \ {0}
         IN (IF named = {} THEN <<>> ELSE <<CHOOSE x \in named : TRUE>>)
            \o InputOrder(Tail(tokens))

\* C21: within one smart_spawn_wave the tasks are handled strictly in input
\* order: the per-task results are in input order, and a step that
\* provisions (adds a worktree, types into a pane) works on the first task
\* without a result and ends with that task's result or the exception.
C21_TasksInInputOrder ==
    /\ [](wave.pc # "idle" =>
            /\ Len(wave.workers) <= Len(InputOrder(wave.tokens))
            /\ \A k \in DOMAIN wave.workers :
                  wave.workers[k].issue_id = InputOrder(wave.tokens)[k])
    /\ [][(wave.pc = "running" /\ <<worktrees, typed>>' # <<worktrees, typed>>) =>
            /\ worktrees' \subseteq
                  worktrees \cup {InputOrder(wave.tokens)[Len(wave.workers) + 1]}
            /\ \/ wave'.pc = "raised"
               \/ Len(wave'.workers) = Len(wave.workers) + 1]_vars

C21_Witness ==
    /\ wave.pc = "returned"
    /\ Len(wave.workers) = 3
    /\ wave.workers[1].issue_id # wave.workers[2].issue_id
    /\ \E k \in 1..3 : wave.workers[k].status = "failed"
    /\ wave.workers[3].status = "spawned"

\* The entries of the summary with the given status.
Entries(status) ==
    {k \in DOMAIN wave.result.workers : wave.result.workers[k].status = status}

\* C22: when an accepted batch completes, total = number of input ids =
\* spawned + failed, and there is exactly one per-task entry for each input
\* id, either spawned with its placement kind or failed with its error.
C22_SummaryCountsEveryTask ==
    (wave.pc = "returned" /\ "total" \in DOMAIN wave.result) =>
        /\ wave.result.total = Requested(wave.tokens)
        /\ wave.result.total = wave.result.spawned + wave.result.failed
        /\ Len(wave.result.workers) = wave.result.total
        /\ wave.result.spawned = Cardinality(Entries("spawned"))
        /\ wave.result.failed = Cardinality(Entries("failed"))
        /\ \A k \in DOMAIN wave.result.workers :
              /\ wave.result.workers[k].issue_id = InputOrder(wave.tokens)[k]
              /\ \/ /\ k \in Entries("spawned")
                    /\ wave.result.workers[k].placement
                          \in {"split_h", "split_v", "new_window"}
                 \/ /\ k \in Entries("failed")
                    /\ "error" \in DOMAIN wave.result.workers[k]

C22_Witness ==
    /\ wave.pc = "returned"
    /\ "total" \in DOMAIN wave.result
    /\ wave.result.total = 3
    /\ wave.result.spawned = 2
    /\ wave.result.failed = 1
    /\ \E k \in Entries("spawned") : wave.result.workers[k].placement = "split_h"

(***************************************************************************)
(* Claims: the concurrency ceiling                                         *)
(***************************************************************************)
\* The workers alive: the worker sessions, and the panes a worker was
\* launched in.
Alive ==
    Cardinality(sessions)
    + Cardinality({p \in DOMAIN typed : \E k \in DOMAIN typed[p] : typed[p][k] = "launch"})

\* C23: no operation that starts a worker takes the number of workers alive
\* at the same time above max_concurrent_workers.
C23_CeilingBoundsLiveWorkers ==
    [][Alive' > Alive => Alive' <= load_config(Store).doc.max_concurrent_workers]_vars

(***************************************************************************)
(* Claims: allocation and release of voices                                *)
(***************************************************************************)
\* The cursor a handler that loads the configuration now reads.
Cursor == load_config(Store).doc.voice_pool_index

\* The pool voice i places after the cursor, cyclically.
FromCursor(i) == VOICE_POOL[((Cursor + i) % Len(VOICE_POOL)) + 1]

\* The first voice from the cursor that is not in `held`; the voice at the
\* cursor when every voice is.
FirstNotHeld(held) ==
    IF \A i \in 0..(Len(VOICE_POOL) - 1) : FromCursor(i) \in held
    THEN FromCursor(0)
    ELSE FromCursor(CHOOSE i \in 0..(Len(VOICE_POOL) - 1) :
                        /\ FromCursor(i) \notin held
                        /\ \A j \in 0..(i - 1) : FromCursor(j) \in held)

\* C25: release(w) followed by allocate(w) need not return the voice w held
\* before: the allocation returns the first voice from the cursor that no
\* other worker holds, whichever voice w held.
C25_ReleaseForgetsTheVoice ==
    \A w \in WorkerIds :
        (RandomOn /\ w \in DOMAIN Assignments) =>
            LET released == release_worker_voice(Store, w)
                again == get_worker_voice(released.st, w)
            IN /\ ~again.raised
               /\ again.val.voice = FirstNotHeld(Range(DictDel(Assignments, w)))

\* allocate(w) has just assigned a voice; release(w) and allocate(w) after
\* it return another one.
C25_Witness ==
    /\ ret.op = "get_worker_voice" /\ ret.saved /\ RandomOn
    /\ ret.arg \in DOMAIN Assignments
    /\ Assignments[ret.arg] = ret.val.voice
    /\ get_worker_voice(release_worker_voice(Store, ret.arg).st, ret.arg).val.voice
          # ret.val.voice

\* The place of a voice in the pool, counted from 0.
IndexOf(voice) == CHOOSE i \in 0..(Len(VOICE_POOL) - 1) : VOICE_POOL[i + 1] = voice

\* A call of get_worker_voice for w is made in this step while randomization
\* is on and w holds no voice.
Allocates(w) ==
    /\ ret'.op = "get_worker_voice" /\ ret'.arg = w /\ ~ret'.raised
    /\ RandomOn
    /\ w \notin DOMAIN Assignments

\* C27: an allocation for an unassigned worker, with randomization on and
\* some voice unassigned, returns the first unassigned voice found scanning
\* the pool cyclically from the persisted cursor, and leaves the cursor at
\* (index of that voice + 1) mod pool size.
C27_FirstFreeVoiceFromCursor ==
    [][\A w \in WorkerIds :
          (Allocates(w) /\ PoolVoices \ Range(Assignments) # {}) =>
              /\ ret'.val.voice \notin Range(Assignments)
              /\ ret'.val.voice = FirstNotHeld(Range(Assignments))
              /\ Assignments'[w] = ret'.val.voice
              /\ Cursor' = (IndexOf(ret'.val.voice) + 1) % Len(VOICE_POOL)]_vars

\* An allocation has just given a worker the last voice of the pool while
\* another worker holds a voice, and the cursor has wrapped around.
C27_Witness ==
    /\ ret.op = "get_worker_voice" /\ ret.saved /\ RandomOn /\ ~overfull
    /\ Cardinality(DOMAIN Assignments) >= 2
    /\ Assignments[ret.arg] = ret.val.voice
    /\ IndexOf(ret.val.voice) = Len(VOICE_POOL) - 1
    /\ Cursor = 0

\* What C28 says of an allocation for w out of an exhausted pool.
ReusesVoiceAtCursor(w) ==
    /\ ret'.val.voice = FromCursor(0)
    /\ DOMAIN Assignments' = (DOMAIN Assignments) \cup {w}
    /\ Assignments'[w] = ret'.val.voice
    /\ Cursor' = (Cursor + 1) % Len(VOICE_POOL)
    /\ \A x \in DOMAIN Assignments : Assignments'[x] = Assignments[x]

\* C28 as stated: an allocation for an unassigned worker, made while every
\* voice of the pool is assigned, assigns the worker the voice at the cursor,
\* advances the cursor by exactly one modulo the pool size and leaves the
\* assignments of the other workers unchanged.
C28_ExhaustedPoolReusesVoiceAtCursor ==
    [][\A w \in WorkerIds :
          ( /\ ret'.op = "get_worker_voice" /\ ret'.arg = w /\ ~ret'.raised
            /\ w \notin DOMAIN Assignments
            /\ PoolVoices \subseteq Range(Assignments) )
          => ReusesVoiceAtCursor(w)]_vars

\* C28 amended: the same, for allocations made while per-worker
\* randomization is enabled.
C28_ExhaustedPoolReusesVoiceAtCursorWhenRandom ==
    [][\A w \in WorkerIds :
          (Allocates(w) /\ PoolVoices \subseteq Range(Assignments))
          => ReusesVoiceAtCursor(w)]_vars

\* An allocation has just given a worker a voice that another worker holds,
\* one worker more than the pool has voices.
C28_Witness ==
    /\ ret.op = "get_worker_voice" /\ ret.saved /\ RandomOn
    /\ Cardinality(DOMAIN Assignments) = Len(VOICE_POOL) + 1
    /\ Assignments[ret.arg] = ret.val.voice
    /\ \E x \in (DOMAIN Assignments) \ {ret.arg} : Assignments[x] = ret.val.voice
    /\ Cursor = (IndexOf(ret.val.voice) + 1) % Len(VOICE_POOL)

\* Randomization is switched off in the configuration a handler loads now.
RandomOff ==
    LET voice == load_config(Store).doc.voice
    IN "random_per_worker" \in DOMAIN voice /\ ~voice.random_per_worker

\* C29: with per-worker randomization disabled, allocate returns the
\* configured default voice for every worker id and leaves the persisted
\* configuration (assignment map and cursor) as it is.
C29_RandomOffReturnsDefaultAndSavesNothing ==
    RandomOff =>
        \A w \in WorkerIds :
            \A r \in {get_worker_voice(Store, w)} :
                /\ ~r.raised
                /\ r.val = [voice |-> load_config(Store).doc.voice.default]
                /\ ~r.saved
                /\ r.st = Store

\* C30: release(w) removes w's mapping and nothing else: afterwards w has no
\* assignment, every other worker's assignment, the cursor and the rest of
\* the document are as before, and releasing a worker without an assignment
\* (so also releasing twice) changes nothing.
C30_ReleaseRemovesOnlyTheMapping ==
    \A w \in WorkerIds :
        \A r \in {release_worker_voice(Store, w)} :
            /\ ~r.raised
            /\ w \notin DOMAIN AssignmentsOf(r.st)
            /\ AssignmentsOf(r.st) = DictDel(Assignments, w)
            /\ load_config(r.st).doc =
                  [load_config(Store).doc EXCEPT
                      !.worker_voice_assignments = DictDel(Assignments, w)]
            /\ load_config(r.st).doc.voice_pool_index = Cursor
            /\ w \notin DOMAIN Assignments => (~r.saved /\ r.st = Store)
            /\ ~release_worker_voice(r.st, w).saved
            /\ release_worker_voice(r.st, w).st = r.st

\* A release has just removed one worker's mapping while two other workers
\* keep theirs and the cursor is not at the start of the pool.
C30_Witness ==
    /\ ret.op = "release_worker_voice" /\ ret.saved
    /\ ret.arg \notin DOMAIN Assignments
    /\ Cardinality(DOMAIN Assignments) >= 2
    /\ Cursor # 0

(***************************************************************************)
(* Claims: the order of the placement decision                             *)
(***************************************************************************)
\* The panes of the last call that are wide enough and high enough for two.
TallEnough ==
    {i \in 1..Len(placement.seen) :
        /\ placement.seen[i].width >= placement.min_w
        /\ placement.seen[i].height >= 2 * placement.min_h}

Splittable == WideEnough \cup TallEnough

\* Pane i is examined before pane j: larger area, or equal area and earlier
\* in the input.
ExaminedBefore(i, j) ==
    \/ Area(placement.seen[i]) > Area(placement.seen[j])
    \/ Area(placement.seen[i]) = Area(placement.seen[j]) /\ i < j

FirstSplittable ==
    CHOOSE i \in Splittable : \A j \in Splittable \ {i} : ExaminedBefore(i, j)

\* The decision splits pane i, side by side if it is wide enough.
SplitsPane(i) ==
    /\ placement.result.target_pane = Some(placement.seen[i].pane_id)
    /\ placement.result.action = IF i \in WideEnough THEN "split_h" ELSE "split_v"

\* C26: without a target the panes are examined in order of non-increasing
\* area, input order among equal areas, and the first pane that passes
\* either test is split, horizontally whenever the horizontal test passes
\* and vertically only when it fails and the vertical test passes; with a
\* target that is present only that pane is examined, and the decision is a
\* split of it or new_window.
C26_SplitsFirstFittingPaneByArea ==
    (placement.called /\ placement.seen # <<>>) =>
        IF IsNone(placement.target_pane)
        THEN IF Splittable = {} THEN placement.result.action = "new_window"
             ELSE SplitsPane(FirstSplittable)
        ELSE \A k \in 1..Len(placement.seen) :
                placement.seen[k].pane_id = placement.target_pane[1] =>
                    IF k \in Splittable THEN SplitsPane(k)
                    ELSE /\ placement.result.action = "new_window"
                         /\ IsNone(placement.result.target_pane)

\* Two panes of the same area can both be split; the earlier one, not the
\* first of the list, was cut vertically because it is too narrow.
C26_Witness ==
    /\ placement.called
    /\ IsNone(placement.target_pane)
    /\ placement.result.action = "split_v"
    /\ \E i, j \in Splittable :
          /\ 1 < i /\ i < j
          /\ Area(placement.seen[i]) = Area(placement.seen[j])
          /\ j \in WideEnough
          /\ placement.result.target_pane = Some(placement.seen[i].pane_id)

(***************************************************************************)
(* Claims: allocations racing on the configuration file                    *)
(***************************************************************************)
\* The assignments in the file as it stands.
Persisted == load_config(Store).doc.worker_voice_assignments

\* C24: voice allocation is a read-modify-write of the shared document that
\* is not atomic: an allocation that saves writes the assignments it read
\* plus its own, whatever another process wrote in between; so two
\* allocations for different workers can interleave and leave one worker's
\* assignment out of the persisted document, or both workers with the same
\* voice while unassigned voices remain.
C24_AllocationWritesWhatItRead ==
    [][\A p \in Procs :
          (alloc[p].pc = "loaded" /\ alloc'[p].pc = "done" /\ alloc'[p].result.saved) =>
              \A read \in {load_config([file |-> alloc[p].seen,
                                        def |-> alloc[p].def]).doc.worker_voice_assignments} :
                  Persisted' = DictSet(read, alloc[p].worker, alloc'[p].result.val.voice)]_vars

\* Both processes have allocated, for different workers; the first one's
\* assignment is gone from the file, and both were given the same voice with
\* another voice of the pool unassigned.
C24_Witness ==
    /\ \A p \in Procs : alloc[p].pc = "done" /\ alloc[p].result.saved
    /\ alloc["p1"].worker # alloc["p2"].worker
    /\ \E p \in Procs : alloc[p].worker \notin DOMAIN Persisted
    /\ alloc["p1"].result.val.voice = alloc["p2"].result.val.voice
    /\ PoolVoices \ Range(Persisted) # {}
    /\ ~overfull

(***************************************************************************)
(* Claims: the audio lock and the streams                                  *)
(***************************************************************************)
\* Caller c waits for its player and took the lock before starting it.
PlaysUnderLock(c) == speakers[c].pc = "playing" /\ speakers[c].held

\* C31: a priority or blocking caller that acquired the lock holds it from
\* the acquisition until its player has exited (it gives the lock up only in
\* the step its player exits, or when no player could be started); so while
\* every stream is that of such a caller (no caller played without waiting,
\* none went on without the lock), at most one stream plays.
C31_LockHeldUntilPlayerExits ==
    /\ [](\A c \in Callers : PlaysUnderLock(c) => (lock = c /\ c \in streams))
    /\ []((\A c \in streams : PlaysUnderLock(c)) => Cardinality(streams) <= 1)
    /\ [][\A c \in Callers :
            ( /\ lock = c /\ lock' # c
              /\ speakers[c].priority \/ speakers[c].blocking )
            => /\ lock' = "free"
               /\ speakers'[c].pc = "done"
               /\ \/ speakers[c].pc = "playing"
                  \/ speakers'[c].result = "no_player"]_vars

\* One caller plays under the lock while a priority caller has tried for the
\* lock and waits.
C31_Witness ==
    \E c, d \in Callers :
        /\ c # d
        /\ PlaysUnderLock(c) /\ speakers[c].blocking
        /\ lock = c
        /\ streams = {c}
        /\ speakers[d].priority /\ speakers[d].pc = "acquire"
        /\ speakers[d].attempts >= 1

\* C32: a caller that is neither priority nor blocking releases the lock
\* right after it started its player, without waiting for it; so the lock
\* can be free, and taken by a second caller that plays, while the first
\* caller's audio is still playing.
C32_BestEffortReleasesAtPlayerStart ==
    [][\A c \in Callers :
          ( /\ speakers[c].pc = "play"
            /\ ~speakers[c].priority /\ ~speakers[c].blocking
            /\ speakers'[c].pc # "play"
            /\ speakers'[c].result # "no_player" )
          => /\ lock = c
             /\ lock' = "free"
             /\ speakers'[c].pc = "done"
             /\ speakers'[c].result = "speaking"
             /\ c \in streams']_vars

\* The first caller has returned and its audio still plays; the second
\* caller has taken the lock after it and plays too.
C32_Witness ==
    \E c, d \in Callers :
        /\ c # d
        /\ speakers[c].pc = "done" /\ speakers[c].result = "speaking"
        /\ ~speakers[c].priority /\ ~speakers[c].blocking
        /\ speakers[d].pc = "playing" /\ speakers[d].held
        /\ lock = d
        /\ streams = {c, d}

\* The callers that took the lock and have not left speak yet.
Holders ==
    {c \in Callers : speakers[c].held /\ speakers[c].pc \in {"play", "playing"}}

\* C39: at most one speak caller holds the audio lock at any time; and a
\* priority caller that used up its attempts and went on without the lock
\* leaves the lock with its holder when it exits.
C39_LockHasOneHolderAndOnlyTheHolderReleases ==
    /\ [](Cardinality(Holders) <= 1 /\ \A c \in Holders : lock = c)
    /\ [][\A c \in Callers :
            ( /\ speakers[c].pc \in {"play", "playing"}
              /\ ~speakers[c].held
              /\ speakers'[c].pc = "done" )
            => lock' = lock]_vars

\* A priority caller has played without the lock and left; the caller that
\* held the lock all along still holds it and plays.
C39_Witness ==
    \E c, d \in Callers :
        /\ c # d
        /\ speakers[c].pc = "done" /\ speakers[c].priority /\ ~speakers[c].held
        /\ speakers[c].attempts = LockRetries
        /\ speakers[c].result = "speaking"
        /\ lock = d
        /\ speakers[d].pc = "playing" /\ speakers[d].held

(***************************************************************************)
(* Claims: the cursor and the voices stay in the pool                      *)
(***************************************************************************)
\* C38: from the default configuration, under allocation, release, kill,
\* set_config and reset, the cursor a handler reads is an index of the pool
\* (0 up to the pool size less one) and every voice assigned to a worker is
\* a voice of the pool; the state a reset_voice_assignments call leaves has
\* no assignment and the cursor at 0.
C38_CursorAndVoicesStayInPool ==
    /\ Cursor \in 0..(Len(VOICE_POOL) - 1)
    /\ Range(Assignments) \subseteq PoolVoices
    /\ ret.op = "reset_voice_assignments" =>
          (~ret.raised /\ Assignments = EmptyDict /\ Cursor = 0)

\* A reset has cleared the assignments and the cursor after the pool was
\* used: the default object in memory still holds a voice given before the
\* file was there.
C38_Witness ==
    /\ ret.op = "reset_voice_assignments"
    /\ ret.saved
    /\ defaults.worker_voice_assignments # EmptyDict
    /\ Assignments = EmptyDict
    /\ Cursor = 0

====
